---- MODULE Spec2Model ----
(***************************************************************************)
(* A model of flate3: a streaming zlib (RFC 1950) / DEFLATE (RFC 1951)     *)
(* decoder.  The byte source is a cursor over a byte vector; the decoder   *)
(* is driven by read calls with a caller buffer of a given size.           *)
(*                                                                         *)
(* Every operation of the code is an operator over the machine record m    *)
(* (all fields of ZlibDecoder, Inflater, CompressedBlockReader, BitRead    *)
(* and the cursor) and returns a record                                    *)
(*     [m, kind, ekind, msg, val]                                          *)
(* kind = "Ok" (val is the value returned), "Err" (an io::Error of kind    *)
(* ekind with message msg) or "Panic" (a failed assert!, an index out of   *)
(* bounds, an arithmetic overflow in a build that checks it).              *)
(* Try(r, F) is the code's try!(r): it returns r when r is not Ok and      *)
(* goes on with F(r) otherwise.                                            *)
(***************************************************************************)
EXTENDS Integers, Sequences, FiniteSets, TLC

VARIABLES
    input,          \* the bytes held by the byte source (Cursor<Vec<u8>>)
    fail_at,        \* source position at which the byte source returns an I/O error (-1: never)
    pos,            \* the cursor's position: bytes taken from the source so far
    overflow_checks,\* build profile: TRUE when integer overflow panics and debug
                    \* assertions are compiled in (debug build)
    api,            \* "zlib": reads go to a ZlibDecoder; "inflate": to a bare Inflater;
                    \* "HuffmanTable", "BitRead": the calls go to that type itself
    zstate,         \* ZlibDecoder.state ("None" = Option::None)
    istate,         \* Inflater.state    ("None" = Option::None)
    data,           \* BitRead.data
    bits,           \* BitRead.bits
    len,            \* InflaterState::UncompressedData.len
    last_block,     \* InflaterState::{UncompressedData,CompressedData}.last_block
    eof,            \* CompressedBlockReader.eof
    lit_len_table,  \* CompressedBlockReader.lit_len_table
    dist_table,     \* CompressedBlockReader.dist_table
    output_cache,   \* Inflater.output_cache
    result,         \* what the last read call returned
    prev,           \* history: the result of the read call before the last one
    produced,       \* history: concatenation of the bytes returned by all reads so far
    copies,         \* history: one entry per back-reference executed
    headers,        \* history: the block headers read, in order
    ended,          \* history: number of blocks decoded to their end
    decoded,        \* history: one entry per run of the macro decode!: the lengths it pushed
    deflate_at,     \* history: source position behind the accepted zlib header (-1: none accepted)
    stored,         \* history: one entry per stored block whose LEN and NLEN were read
    asked,          \* history: buf.len() of the last read call
    bits_taken,     \* history: number of bits the calls of BitRead::read have returned
    stream          \* the description the input bytes were built from

vars == <<input, fail_at, pos, overflow_checks, api, zstate, istate, data, bits,
          len, last_block, eof, lit_len_table, dist_table, output_cache, result,
          prev, produced, copies, headers, ended, stored,
          deflate_at, decoded,
          asked, bits_taken, stream>>

----------------------------------------------------------------------------
(* Results of operations *)

Ok(m, v)    == [m |-> m, kind |-> "Ok", ekind |-> "", msg |-> "", val |-> v]
Err(m, msg) == [m |-> m, kind |-> "Err", ekind |-> "InvalidInput", msg |-> msg, val |-> 0]
Panic(m, msg) == [m |-> m, kind |-> "Panic", ekind |-> "", msg |-> msg, val |-> 0]

\* F applied to the value of v
With(v, F(_)) == CHOOSE y \in {F(x) : x \in {v}} : TRUE

\* try!(r), then F
Try(r, F(_)) == CHOOSE y \in {IF x.kind = "Ok" THEN F(x) ELSE x : x \in {r}} : TRUE

Min(a, b) == IF a < b THEN a ELSE b

----------------------------------------------------------------------------
(* Machine integers *)

RECURSIVE BitAnd(_, _)
BitAnd(a, b) ==
    IF a = 0 \/ b = 0 THEN 0
    ELSE (a % 2) * (b % 2) + 2 * BitAnd(a \div 2, b \div 2)

RECURSIVE BitOr(_, _)
BitOr(a, b) ==
    IF a = 0 THEN b
    ELSE IF b = 0 THEN a
    ELSE (IF a % 2 = 1 \/ b % 2 = 1 THEN 1 ELSE 0) + 2 * BitOr(a \div 2, b \div 2)

\* x << n on a u16: the bits shifted out are lost
Shl16(x, n) == (x * 2^n) % 65536

----------------------------------------------------------------------------
(* The byte source: a cursor over `input` that may fail at one position *)

\* <R as Read>::read(&mut buf[..n]): as many bytes as are left, up to n
SourceRead(m, n) ==
    IF m.pos = m.fail_at
    THEN [m |-> m, kind |-> "Err", ekind |-> "Other", msg |-> "source error", val |-> 0]
    ELSE Ok([m EXCEPT !.pos = m.pos + Min(n, Len(m.input) - m.pos)],
            SubSeq(m.input, m.pos + 1, m.pos + Min(n, Len(m.input) - m.pos)))

RECURSIVE read_all_loop(_, _, _)
read_all_loop(m, got, n) ==
    Try(SourceRead(m, n - Len(got)), LAMBDA s :
        IF Len(s.val) = n - Len(got) THEN Ok(s.m, got \o s.val)
        ELSE IF Len(s.val) = 0 THEN Err(s.m, "Unexpected EOF")
        ELSE read_all_loop(s.m, got \o s.val, n))

\* Reads in the whole buffer of n bytes; val is the buffer
read_all(m, n) == read_all_loop(m, <<>>, n)

----------------------------------------------------------------------------
(* bit.rs: BitRead *)

BitRead_new(m) == [m EXCEPT !.data = 0, !.bits = 0]

read_from_cache_keeps_data(m, nbits) ==
    IF ~(nbits <= m.bits) THEN Panic(m, "assertion failed: bits <= self.bits")
    ELSE Ok([m EXCEPT !.bits = m.bits - nbits], BitAnd(m.data, 2^nbits - 1) % 256)

read_from_cache(m, nbits) ==
    IF ~(nbits <= m.bits) THEN Panic(m, "assertion failed: bits <= self.bits")
    ELSE Ok([m EXCEPT !.data = m.data \div 2^nbits, !.bits = m.bits - nbits],
            BitAnd(m.data, 2^nbits - 1) % 256)

\* the refill of BitRead::read: one byte of the source goes above the buffered bits
refill(m) ==
    Try(SourceRead(m, 1), LAMBDA s :
        IF Len(s.val) = 0 THEN Err(s.m, "Unexpected EOF in bits stream")
        ELSE IF ~(m.bits <= 8) THEN Panic(s.m, "assertion failed: self.bits <= 8")
        ELSE Ok([s.m EXCEPT !.data = BitOr(m.data, Shl16(s.val[1], m.bits)),
                            !.bits = m.bits + 8], 0))

BitRead_read_refills_early(m, nbits) ==
    IF ~(nbits <= 8) THEN Panic(m, "assertion failed: bits <= 8")
    ELSE Try(IF nbits >= m.bits THEN refill(m) ELSE Ok(m, 0), LAMBDA f :
             read_from_cache(f.m, nbits))

BitRead_read(m, nbits) ==
    IF ~(nbits <= 8) THEN Panic(m, "assertion failed: bits <= 8")
    ELSE Try(IF nbits > m.bits THEN refill(m) ELSE Ok(m, 0), LAMBDA f :
             read_from_cache(f.m, nbits))

\* as byte_align_unwrap, were the byte behind the buffered bits dropped with them
byte_align_unwrap_drops_a_byte(m) ==
    IF m.overflow_checks /\ ~(m.bits <= 7)
    THEN Panic(m, "assertion failed: self.bits <= 7")
    ELSE Ok([m EXCEPT !.data = 0, !.bits = 0,
                      !.pos = Min(m.pos + 1, Len(m.input))], 0)

\* Drops the buffered bits and hands the source back
byte_align_unwrap(m) ==
    IF m.overflow_checks /\ ~(m.bits <= 7)
    THEN Panic(m, "assertion failed: self.bits <= 7")
    ELSE Ok([m EXCEPT !.data = 0, !.bits = 0], 0)

----------------------------------------------------------------------------
(* huffman.rs: HuffmanTable *)

NoElem == <<>>                     \* Option::None
SomeElem(l, s) == <<l, s>>         \* Some((len, symbol))
NoTable == [elements |-> <<>>, min_bits |-> 0]

\* bitlen_count[l]: number of pairs with length l, for l in 0..9
bitlen_count(lengths) ==
    [l \in 0..9 |-> Cardinality({i \in 1..Len(lengths) : lengths[i][2] = l})]

RECURSIVE next_code_from_without_shift(_, _, _, _)
next_code_from_without_shift(bl, bit, code, next_code) ==
    IF bit > 9 THEN next_code
    ELSE next_code_from_without_shift(bl, bit + 1, code + bl[bit - 1],
                                      [next_code EXCEPT ![bit] = code + bl[bit - 1]])

RECURSIVE next_code_from(_, _, _, _)
next_code_from(bl, bit, code, next_code) ==
    IF bit > 9 THEN next_code
    ELSE next_code_from(bl, bit + 1, (code + bl[bit - 1]) * 2,
                        [next_code EXCEPT ![bit] = (code + bl[bit - 1]) * 2])

\* The loop that stores the pairs: pair i takes the code next_code[l], where
\* next_code[l] has been advanced once by every earlier pair of the same length l;
\* elements grows to hold the largest code stored, and a later pair stored at a
\* slot replaces an earlier one.
code_of(lengths, next_code, i) ==
    next_code[lengths[i][2]]
    + Cardinality({j \in 1..(i - 1) : lengths[j][2] = lengths[i][2]})

fill_elements(lengths, next_code) ==
    With([i \in 1..Len(lengths) |-> code_of(lengths, next_code, i)], LAMBDA code :
        [slot \in 1..(1 + CHOOSE c \in {code[i] : i \in 1..Len(lengths)} :
                              \A i \in 1..Len(lengths) : code[i] <= c) |->
            With({i \in 1..Len(lengths) : code[i] = slot - 1}, LAMBDA at :
                IF at = {} THEN NoElem
                ELSE With(CHOOSE x \in at : \A y \in at : y <= x, LAMBDA i :
                          SomeElem(lengths[i][2], lengths[i][1])))])

\* position of the first length that some pair has
first_length(bl) == CHOOSE p \in 0..9 : bl[p] # 0 /\ \A q \in 0..(p - 1) : bl[q] = 0

\* lengths: a sequence of <<symbol, length>>.  kind "Ok" with the table, or "Panic".
from_lengths(lengths) ==
    IF Len(lengths) = 0
    THEN [kind |-> "Panic", msg |-> "assertion failed: !lengths.is_empty()", val |-> NoTable]
    ELSE IF \E i \in 1..Len(lengths) : lengths[i][2] > 9
    THEN [kind |-> "Panic", msg |-> "index out of bounds: bl[len]", val |-> NoTable]
    ELSE With(bitlen_count(lengths), LAMBDA bl :
             IF ~(first_length(bl) >= 1)
             THEN [kind |-> "Panic", msg |-> "assertion failed: min_bits >= 1",
                   val |-> NoTable]
             ELSE [kind |-> "Ok", msg |-> "",
                   val |-> [elements |-> fill_elements(lengths,
                                            next_code_from(bl, 1, 0, [b \in 0..9 |-> 0])),
                            min_bits |-> first_length(bl)]])

RECURSIVE decode_first(_, _, _)
\* the first min_bits bits, each shifted into the low end of buffer
decode_first(m, buffer, k) ==
    IF k = 0 THEN Ok(m, buffer)
    ELSE Try(BitRead_read(m, 1), LAMBDA b :
             decode_first(b.m, BitOr(Shl16(buffer, 1), b.val), k - 1))

RECURSIVE decode_loop(_, _, _, _)
decode_loop(table, m, buffer, num_bits_in_buffer) ==
    IF 2^num_bits_in_buffer > Len(table.elements)
    THEN Err(m, "Bad huffman data")
    ELSE IF buffer >= Len(table.elements)
    THEN Panic(m, "index out of bounds: elements[buffer]")
    ELSE IF /\ table.elements[buffer + 1] # NoElem
            /\ table.elements[buffer + 1][1] = num_bits_in_buffer
    THEN Ok(m, table.elements[buffer + 1][2])
    ELSE Try(BitRead_read(m, 1), LAMBDA b :
             decode_loop(table, b.m, BitOr(Shl16(buffer, 1), b.val),
                         num_bits_in_buffer + 1))

\* Reads bits from the bit reader of m until they match a code of the table
decode(table, m) ==
    Try(decode_first(m, 0, table.min_bits), LAMBDA f :
        decode_loop(table, f.m, f.val, table.min_bits))

----------------------------------------------------------------------------
(* compressed_block_reader.rs *)

Byte(v)    == [t |-> "Byte", v |-> v]
EofSymbol  == [t |-> "Eof", v |-> 0]
Pointer(p) == [t |-> "Pointer", v |-> p]

\* the symbol of position num of a literal/length alphabet
LitLenSymbol(num) ==
    IF num <= 255 THEN Byte(num)
    ELSE IF num = 256 THEN EofSymbol
    ELSE Pointer((num - 257) % 256)

LENGTHS ==
    <<3, 4, 5, 6, 7, 8, 9, 10, 11, 13,
      15, 17, 19, 23, 27, 31, 35, 43, 51, 59,
      67, 83, 99, 115, 131, 163, 195, 227, 258>>

EXTRA_LENGTHS ==
    <<0, 0, 0, 0, 0, 0, 0, 0, 1, 1,
      1, 1, 2, 2, 2, 2, 3, 3, 3, 3,
      4, 4, 4, 4, 5, 5, 5, 5, 0>>

DISTANCES ==
    <<1, 2, 3, 4, 5, 7, 9, 13, 17, 25,
      33, 49, 65, 97, 129, 193, 257, 385, 513, 769,
      1025, 1537, 2049, 3073, 4097, 6145, 8193, 12289, 16385, 24577>>

EXTRA_DISTANCES ==
    <<0, 0, 0, 0, 1, 1, 2, 2, 3, 3,
      4, 4, 5, 5, 6, 6, 7, 7, 8, 8,
      9, 9, 10, 10, 11, 11, 12, 12, 13, 13>>

\* as FixedLitLenLengths, were the first arm of the match on the length 0 ... 144
FixedLitLenLengths_144_with_8_bits ==
    [k \in 1..288 |->
        <<LitLenSymbol(k - 1),
          IF k - 1 <= 144 THEN 8 ELSE IF k - 1 <= 255 THEN 9
          ELSE IF k - 1 <= 279 THEN 7 ELSE 8>>]

FixedLitLenLengths ==
    [k \in 1..288 |->
        <<LitLenSymbol(k - 1),
          IF k - 1 <= 143 THEN 8 ELSE IF k - 1 <= 255 THEN 9
          ELSE IF k - 1 <= 279 THEN 7 ELSE 8>>]

FixedDistLengths == [k \in 1..32 |-> <<k - 1, 5>>]

FixedLitLenTable == from_lengths(FixedLitLenLengths)
FixedDistTable   == from_lengths(FixedDistLengths)

\* Builds a reader for this block from two tables that from_lengths returned
new_reader(m, lit_len, dist) ==
    IF lit_len.kind # "Ok" THEN Panic(m, lit_len.msg)
    ELSE IF dist.kind # "Ok" THEN Panic(m, dist.msg)
    ELSE Ok([m EXCEPT !.eof = FALSE, !.lit_len_table = lit_len.val,
                      !.dist_table = dist.val], 0)

\* Builds a reader for this block that uses the fixed tables
from_fixed_tables(m) == new_reader(m, FixedLitLenTable, FixedDistTable)

\* as read_behind, were one byte more skipped
read_behind_skips_one_more(length, distance, immediate_cache, previous_cache, dest_len, checks) ==
    LET all   == previous_cache \o immediate_cache
        start == (IF Len(all) > distance THEN Len(all) - distance ELSE 0) + 1
        count == Min(Min(length, dest_len), IF Len(all) > start THEN Len(all) - start ELSE 0)
    IN  [kind |-> "Ok", msg |-> "",
         written |-> [i \in 1..count |-> all[start + i]],
         remaining |-> <<>>]

\* The bytes `distance` back from the end of previous_cache \o immediate_cache, at
\* most `length` of them, go to a destination with room for dest_len bytes.
\* written: the bytes stored; remaining: the bytes the iterator still held after
\* the zip with the destination ended (the zip takes one more source byte before it
\* finds the destination full, and drops it).
read_behind(length, distance, immediate_cache, previous_cache, dest_len, checks) ==
    IF Len(previous_cache) + Len(immediate_cache) - distance < 0 /\ checks
    THEN [kind |-> "Panic", msg |-> "attempt to subtract with overflow",
          written |-> <<>>, remaining |-> <<>>]
    ELSE With(IF Len(previous_cache) + Len(immediate_cache) - distance < 0
              THEN <<>>   \* the usize wrapped: skip() passes over every byte
              ELSE SubSeq(previous_cache \o immediate_cache,
                          Len(previous_cache) + Len(immediate_cache) - distance + 1,
                          Len(previous_cache) + Len(immediate_cache)), LAMBDA rest :
         With(SubSeq(rest, 1, Min(length, Len(rest))), LAMBDA taken :
              [kind |-> "Ok", msg |-> "",
               written |-> SubSeq(taken, 1, Min(Len(taken), dest_len)),
               remaining |-> SubSeq(taken, dest_len + 2, Len(taken))]))

\* the history entry of one back-reference
CopyEntry(m, out, buf_len, length, distance, rb) ==
    [at |-> Len(m.output_cache) + Len(out), hist |-> Len(m.output_cache),
     length |-> length, distance |-> distance,
     room |-> buf_len - Len(out), nb |-> Len(rb.written)]

\* the call of read_behind in ReadContext::read and the assert after it
copy_behind(m, out, buf_len, length, distance) ==
    With(read_behind(length, distance, out, m.output_cache, buf_len - Len(out),
                     m.overflow_checks), LAMBDA rb :
    With([m EXCEPT !.copies = Append(@, CopyEntry(m, out, buf_len, length, distance, rb))],
         LAMBDA logged :
        IF rb.kind # "Ok" THEN Panic(logged, rb.msg)
        ELSE IF ~(Len(rb.remaining) = 0)
        THEN Panic(logged, "assertion failed: remaining_data.len() == 0")
        ELSE Ok(logged, out \o rb.written)))

\* LitLenSymbol::Pointer(ptr) in ReadContext::read; out = buf[..written].
\* val is buf[..written] after the copy.
pointer_arm(m, out, buf_len, ptr) ==
    IF ptr >= Len(LENGTHS) THEN Panic(m, "index out of bounds: LENGTHS[ptr]")
    ELSE
    Try(BitRead_read(m, EXTRA_LENGTHS[ptr + 1]), LAMBDA e :
    Try(decode(e.m.dist_table, e.m), LAMBDA d :
        IF d.val >= Len(DISTANCES)
        THEN Panic(d.m, "index out of bounds: DISTANCES[distance]")
        ELSE
        Try(BitRead_read(d.m, EXTRA_DISTANCES[d.val + 1]), LAMBDA x :
            copy_behind(x.m, out, buf_len,
                        (LENGTHS[ptr + 1] + e.val) % 65536,
                        (DISTANCES[d.val + 1] + x.val) % 65536))))

RECURSIVE ReadContext_loop(_, _, _)
ReadContext_loop(m, out, buf_len) ==
    IF Len(out) = buf_len THEN Ok(m, out)
    ELSE Try(decode(m.lit_len_table, m), LAMBDA s :
             IF s.val.t = "Byte"
             THEN ReadContext_loop(s.m, Append(out, s.val.v), buf_len)
             ELSE IF s.val.t = "Eof"
             THEN Ok([s.m EXCEPT !.eof = TRUE, !.ended = @ + 1], out)
             ELSE Try(pointer_arm(s.m, out, buf_len, s.val.v), LAMBDA p :
                      ReadContext_loop(p.m, p.val, buf_len)))

\* ReadContext::read over a buffer of buf_len bytes; val is buf[..written]
ReadContext_read(m, buf_len) ==
    IF m.eof THEN Ok(m, <<>>)
    ELSE ReadContext_loop(m, <<>>, buf_len)

\* DecodingCommand
CodeLength(c)   == [t |-> "CodeLength", v |-> c]
RepeatPrevious  == [t |-> "RepeatPrevious", v |-> 0]
RepeatZeroSmall == [t |-> "RepeatZeroSmall", v |-> 0]
RepeatZeroLarge == [t |-> "RepeatZeroLarge", v |-> 0]

\* the order in which the lengths of the decoding commands are stored
CodeOrder == <<16, 17, 18, 0, 8, 7, 9, 6, 10, 5, 11, 4, 12, 3, 13, 2, 14, 1, 15>>

\* the command of each position of decoding_codes
CommandOf(k) ==
    IF k <= 15 THEN CodeLength(k)
    ELSE IF k = 16 THEN RepeatPrevious
    ELSE IF k = 17 THEN RepeatZeroSmall
    ELSE RepeatZeroLarge

RECURSIVE read_decoding_codes(_, _, _, _)
\* the first hclen positions of CodeOrder get three bits each
read_decoding_codes(m, decoding_codes, k, hclen) ==
    IF k = Min(hclen, Len(CodeOrder)) THEN Ok(m, decoding_codes)
    ELSE Try(BitRead_read(m, 3), LAMBDA r :
             read_decoding_codes(r.m, [decoding_codes EXCEPT ![CodeOrder[k + 1]] = r.val],
                                 k + 1, hclen))

\* the pairs whose length is not 0
nonzero(lengths) == SelectSeq(lengths, LAMBDA p : p[2] # 0)

\* the table of the decoding commands
decoding_table(decoding_codes) ==
    from_lengths(nonzero([k \in 1..19 |-> <<CommandOf(k - 1), decoding_codes[k - 1]>>]))

\* history of the run of decode! that is going on: the lengths pushed so far (result),
\* and for each command RepeatPrevious the number of lengths pushed before it and the
\* number it pushed (0 when it failed)
run_logged(m, lens, repeat) ==
    [m EXCEPT !.decoded[Len(m.decoded)] = [@ EXCEPT !.lens = lens,
                                                    !.reps = @ \o repeat]]

\* the body of the loop went through: code and result as they are now
command_done(m, code, lens, repeat) == Ok(run_logged(m, lens, repeat), <<code, lens>>)

\* One run of the body of the loop of the macro decode!.  r.val is <<code, result>>:
\* code is <<>> for None and <<c>> for Some(c), result the lengths pushed so far.
decode_command(table, r) ==
    Try(decode(table, r.m), LAMBDA c :
        IF c.val.t = "CodeLength"
        THEN command_done(c.m, <<c.val.v>>, Append(r.val[2], c.val.v), <<>>)
        ELSE IF c.val.t = "RepeatPrevious" /\ r.val[1] = <<>>
        THEN Err(run_logged(c.m, r.val[2], <<[before |-> Len(r.val[2]), count |-> 0]>>),
                 "Can't repeat the previous code length as there is none")
        ELSE
        Try(BitRead_read(c.m, IF c.val.t = "RepeatPrevious" THEN 2
                              ELSE IF c.val.t = "RepeatZeroSmall" THEN 3 ELSE 7),
            LAMBDA x :
            command_done(x.m, r.val[1],
                r.val[2] \o
                [i \in 1..((IF c.val.t = "RepeatZeroLarge" THEN 11 ELSE 3) + x.val)
                    |-> IF c.val.t = "RepeatPrevious" THEN r.val[1][1] ELSE 0],
                IF c.val.t = "RepeatPrevious"
                THEN <<[before |-> Len(r.val[2]), count |-> 3 + x.val]>> ELSE <<>>)))

RECURSIVE decode_commands(_, _, _)
\* n runs of the body one after the other, from r on: the first half of the runs and
\* then the rest of them
decode_commands(table, r, n) ==
    IF n = 0 THEN r
    ELSE IF n = 1 THEN decode_command(table, r)
    ELSE Try(decode_commands(table, r, n \div 2), LAMBDA h :
             decode_commands(table, h, n - (n \div 2)))

\* n as u8
as_u8(n) == n % 256

\* $map of the macro decode!: the symbol of position num, for the literal/length
\* table (lit_len) or for the distance table
map_symbol(lit_len, num) == IF lit_len THEN LitLenSymbol(num) ELSE as_u8(num)

\* the lengths that are not 0, in their order
kept_lengths(lens) == SelectSeq(lens, LAMBDA l : l # 0)

\* the end of the macro decode!: the lengths 0 are filtered out, and what is left is
\* numbered from 0 and given to from_lengths with $map(num) as its symbol
table_of_lengths(lens, lit_len) ==
    from_lengths([num \in 1..Len(kept_lengths(lens)) |->
                     <<map_symbol(lit_len, num - 1), kept_lengths(lens)[num]>>])

\* the macro decode!; val is what from_lengths returned
decode_table(table, m, n, lit_len) ==
    Try(decode_commands(table,
            Ok([m EXCEPT !.decoded = Append(@, [blk |-> Len(m.headers), n |-> n,
                                                lens |-> <<>>, reps |-> <<>>])],
               <<<<>>, <<>>>>), n), LAMBDA r :
        With(table_of_lengths(r.val[2], lit_len), LAMBDA t :
             IF t.kind # "Ok" THEN Panic(r.m, t.msg) ELSE Ok(r.m, t)))

\* val is <<lit_len_table, dist_table>>, as from_lengths returned them
read_dynamic_tables(m) ==
    Try(BitRead_read(m, 5), LAMBDA hlit :
    Try(BitRead_read(hlit.m, 5), LAMBDA hdist :
    Try(BitRead_read(hdist.m, 4), LAMBDA hclen :
    Try(read_decoding_codes(hclen.m, [c \in 0..18 |-> 0], 0, hclen.val + 4), LAMBDA dc :
    With(decoding_table(dc.val), LAMBDA t :
        IF t.kind # "Ok" THEN Panic(dc.m, t.msg)
        ELSE
        Try(decode_table(t.val, dc.m, hlit.val + 257, TRUE), LAMBDA ll :
        Try(decode_table(t.val, ll.m, hdist.val + 1, FALSE), LAMBDA dl :
            Ok(dl.m, <<ll.val, dl.val>>))))))))

\* Reads dynamic tables from the input and builds a reader for this block
from_dynamic_tables(m) ==
    Try(read_dynamic_tables(m), LAMBDA r : new_reader(r.m, r.val[1], r.val[2]))

----------------------------------------------------------------------------
(* inflate.rs: Inflater *)

\* self.state stays None (it was taken) and what the arm owned is dropped
Poison(r) ==
    [r EXCEPT !.m = [r.m EXCEPT !.istate = "None", !.data = 0, !.bits = 0, !.len = 0,
                                !.last_block = FALSE, !.eof = FALSE,
                                !.lit_len_table = NoTable, !.dist_table = NoTable]]

\* as OrPoison, were the state put back before an error is returned
OrPoison_state_put_back(r) == r

\* a read that does not end Ok leaves the state it took at None
OrPoison(r) == With(r, LAMBDA x : IF x.kind = "Ok" THEN x ELSE Poison(x))

Inflater_new(m) ==
    [m EXCEPT !.data = 0, !.bits = 0, !.output_cache = <<>>,
              !.istate = "BeforeBlockStart", !.len = 0, !.last_block = FALSE,
              !.eof = FALSE, !.lit_len_table = NoTable, !.dist_table = NoTable]

\* history of a stored block: the 4 header bytes as read (header.val), the block's
\* number, the source position behind the header, the output produced before the block
StoredEntry(header) ==
    [blk |-> Len(header.m.headers), src |-> header.m.pos,
     at |-> Len(header.m.output_cache),
     len |-> BitOr(Shl16(header.val[2], 8), header.val[1]),
     nlen |-> BitOr(Shl16(header.val[4], 8), header.val[3])]

\* block of uncompressed data: the arm 0b00 of consume_block_start
stored_block_start(m, bfinal) ==
    Try(byte_align_unwrap(m), LAMBDA inner :
    Try(read_all(inner.m, 4), LAMBDA header :
    With([header.m EXCEPT !.stored = Append(@, StoredEntry(header))], LAMBDA h :
        IF BitOr(Shl16(header.val[4], 8), header.val[3])
               # 65535 - BitOr(Shl16(header.val[2], 8), header.val[1])
        THEN Err(h, "Failed to match nlen and len")
        ELSE Ok([h EXCEPT !.istate = "UncompressedData",
                          !.len = BitOr(Shl16(header.val[2], 8), header.val[1]),
                          !.last_block = bfinal], 0))))

\* a compressed block starts: the reader c.m is the state's data
compressed_block_start(c, bfinal) ==
    Try(c, LAMBDA r : Ok([r.m EXCEPT !.istate = "CompressedData",
                                     !.last_block = bfinal], 0))

\* as consume_block_start, were the two bits of btype read before bfinal
consume_block_start_btype_first(m) ==
    Try(BitRead_read(m, 2), LAMBDA t :
    Try(BitRead_read(t.m, 1), LAMBDA f :
    With([f.m EXCEPT !.headers = Append(@, [bfinal |-> f.val # 0, btype |-> t.val,
                                            at |-> 8 * m.pos - m.bits])],
         LAMBDA h :
        IF t.val = 2 THEN compressed_block_start(from_dynamic_tables(h), f.val # 0)
        ELSE IF t.val = 1 THEN compressed_block_start(from_fixed_tables(h), f.val # 0)
        ELSE IF t.val = 0 THEN stored_block_start(h, f.val # 0)
        ELSE Err(h, "Reserved block type 0b11"))))

\* val is unused; the new state is in m.  The history of the header holds the index
\* of its first bit in the source: the bits of the bytes taken, less the bits buffered.
consume_block_start(m) ==
    Try(BitRead_read(m, 1), LAMBDA f :
    Try(BitRead_read(f.m, 2), LAMBDA t :
    With([t.m EXCEPT !.headers = Append(@, [bfinal |-> f.val # 0, btype |-> t.val,
                                            at |-> 8 * m.pos - m.bits])],
         LAMBDA h :
        IF t.val = 2 THEN compressed_block_start(from_dynamic_tables(h), f.val # 0)
        ELSE IF t.val = 1 THEN compressed_block_start(from_fixed_tables(h), f.val # 0)
        ELSE IF t.val = 0 THEN stored_block_start(h, f.val # 0)
        ELSE Err(h, "Reserved block type 0b11"))))

\* as uncompressed_arm, were the caller's whole buffer handed to the source
uncompressed_arm_reads_whole_buffer(m, buf_len) ==
    Try(SourceRead(m, buf_len), LAMBDA r :
    With([r.m EXCEPT !.output_cache = @ \o r.val], LAMBDA pushed :
        IF Len(r.val) = 0
        THEN Err(pushed, "Unexpected EOF inside uncompressed block")
        ELSE IF Len(r.val) >= m.len
        THEN IF m.last_block
             THEN Ok([pushed EXCEPT !.istate = "Eof", !.len = 0, !.ended = @ + 1,
                                    !.last_block = FALSE], r.val)
             ELSE Ok([BitRead_new(pushed) EXCEPT !.istate = "BeforeBlockStart",
                                    !.len = 0, !.ended = @ + 1], r.val)
        ELSE Ok([pushed EXCEPT !.len = m.len - Len(r.val)], r.val)))

\* as uncompressed_arm, were the bytes of a stored block not pushed to output_cache
uncompressed_arm_without_cache(m, buf_len) ==
    IF ~(m.len # 0) THEN Panic(m, "assertion failed: len != 0")
    ELSE
    Try(SourceRead(m, IF buf_len > m.len THEN m.len ELSE buf_len), LAMBDA r :
        IF Len(r.val) = 0
        THEN Err(r.m, "Unexpected EOF inside uncompressed block")
        ELSE IF Len(r.val) = m.len
        THEN IF m.last_block
             THEN Ok([r.m EXCEPT !.istate = "Eof", !.len = 0, !.ended = @ + 1,
                                 !.last_block = FALSE], r.val)
             ELSE Ok([BitRead_new(r.m) EXCEPT !.istate = "BeforeBlockStart",
                                 !.len = 0, !.ended = @ + 1], r.val)
        ELSE Ok([r.m EXCEPT !.len = m.len - Len(r.val)], r.val))

\* the arm UncompressedData of Inflater::read
uncompressed_arm(m, buf_len) ==
    IF ~(m.len # 0) THEN Panic(m, "assertion failed: len != 0")
    ELSE
    Try(SourceRead(m, IF buf_len > m.len THEN m.len ELSE buf_len), LAMBDA r :
    With([r.m EXCEPT !.output_cache = @ \o r.val], LAMBDA pushed :
        IF Len(r.val) = 0
        THEN Err(pushed, "Unexpected EOF inside uncompressed block")
        ELSE IF Len(r.val) = m.len
        THEN IF m.last_block
             THEN Ok([pushed EXCEPT !.istate = "Eof", !.len = 0, !.ended = @ + 1,
                                    !.last_block = FALSE], r.val)
             ELSE Ok([BitRead_new(pushed) EXCEPT !.istate = "BeforeBlockStart",
                                    !.len = 0, !.ended = @ + 1], r.val)
        ELSE Ok([pushed EXCEPT !.len = m.len - Len(r.val)], r.val)))

\* the state after a compressed block: the block reader is dropped
block_closed(m) ==
    [m EXCEPT !.eof = FALSE, !.last_block = FALSE,
              !.lit_len_table = NoTable, !.dist_table = NoTable]

RECURSIVE Inflater_read(_, _)

\* as compressed_arm, were the end of a block that is not the last reported to the caller
compressed_arm_reports_block_end(m, buf_len) ==
    Try(ReadContext_read(m, buf_len), LAMBDA r :
        IF Len(r.val) = 0
        THEN IF m.last_block
             THEN Inflater_read([block_closed(r.m) EXCEPT !.istate = "Eof"], buf_len)
             ELSE Ok([block_closed(r.m) EXCEPT !.istate = "BeforeBlockStart"], <<>>)
        ELSE Ok([r.m EXCEPT !.output_cache = @ \o r.val], r.val))

\* as compressed_arm, were the block reader unwrapped down to the source and a new bit
\* reader made at the end of a block that is not the last
compressed_arm_new_bit_reader(m, buf_len) ==
    Try(ReadContext_read(m, buf_len), LAMBDA r :
        IF Len(r.val) = 0
        THEN IF m.last_block
             THEN Try(byte_align_unwrap(block_closed(r.m)), LAMBDA u :
                      Inflater_read([u.m EXCEPT !.istate = "Eof"], buf_len))
             ELSE Inflater_read([BitRead_new(block_closed(r.m))
                                    EXCEPT !.istate = "BeforeBlockStart"], buf_len)
        ELSE Ok([r.m EXCEPT !.output_cache = @ \o r.val], r.val))

\* the arm CompressedData of Inflater::read
compressed_arm(m, buf_len) ==
    Try(ReadContext_read(m, buf_len), LAMBDA r :
        IF Len(r.val) = 0
        THEN IF m.last_block
             THEN Try(byte_align_unwrap(block_closed(r.m)), LAMBDA u :
                      Inflater_read([u.m EXCEPT !.istate = "Eof"], buf_len))
             ELSE Inflater_read([block_closed(r.m) EXCEPT !.istate = "BeforeBlockStart"],
                                buf_len)
        ELSE Ok([r.m EXCEPT !.output_cache = @ \o r.val], r.val))

\* Inflater::read over a buffer of buf_len bytes; val is buf[..result]
Inflater_read(m, buf_len) ==
    OrPoison(
        IF m.istate = "BeforeBlockStart"
        THEN Try(consume_block_start(m), LAMBDA s : Inflater_read(s.m, buf_len))
        ELSE IF m.istate = "UncompressedData" THEN uncompressed_arm(m, buf_len)
        ELSE IF m.istate = "CompressedData" THEN compressed_arm(m, buf_len)
        ELSE IF m.istate = "Eof" THEN Ok(m, <<>>)
        ELSE Err(m, "I/O errors in the inflater are unrecoverable"))

----------------------------------------------------------------------------
(* zlib_decoder.rs: ZlibDecoder *)

\* as consume_zlib_header, were the value of fcheck not checked
consume_zlib_header_without_fcheck(m) ==
    Try(read_all(m, 2), LAMBDA header :
        IF BitAnd(header.val[1], 15) # 8
        THEN Err(header.m, "Unsupported zlib compression method")
        ELSE IF BitAnd(header.val[1] \div 16, 15) # 7
        THEN Err(header.m, "Unsupported value for CInfo in zlib header")
        ELSE IF BitAnd(header.val[2], 32) # 0
        THEN read_all(header.m, 4)
        ELSE Ok(header.m, 0))

consume_zlib_header(m) ==
    Try(read_all(m, 2), LAMBDA header :
        IF BitAnd(header.val[1], 15) # 8
        THEN Err(header.m, "Unsupported zlib compression method")
        ELSE IF BitAnd(header.val[1] \div 16, 15) # 7
        THEN Err(header.m, "Unsupported value for CInfo in zlib header")
        ELSE IF (header.val[1] * 256 + header.val[2]) % 31 # 0
        THEN Err(header.m, "Wrong value for zlib header checksum")
        ELSE IF BitAnd(header.val[2], 32) # 0
        THEN read_all(header.m, 4)
        ELSE Ok(header.m, 0))

\* self.state stays None; the inflater it owned is dropped
ZPoison(r) == [Poison(r) EXCEPT !.m.zstate = "None"]

OrZPoison(r) == With(r, LAMBDA x : IF x.kind = "Ok" THEN x ELSE ZPoison(x))

RECURSIVE ZlibDecoder_read(_, _)
\* ZlibDecoder::read over a buffer of buf_len bytes; val is buf[..result]
ZlibDecoder_read(m, buf_len) ==
    OrZPoison(
        IF m.zstate = "Start"
        THEN Try(consume_zlib_header(m), LAMBDA h :
                 ZlibDecoder_read([Inflater_new(h.m) EXCEPT !.zstate = "CompressedData",
                                                            !.deflate_at = h.m.pos],
                                  buf_len))
        ELSE IF m.zstate = "CompressedData"
        THEN Try(Inflater_read(m, buf_len), LAMBDA r :
                 IF Len(r.val) = 0
                 THEN ZlibDecoder_read([r.m EXCEPT !.zstate = "Checksum"], buf_len)
                 ELSE r)
        ELSE IF m.zstate = "Checksum"
        THEN Ok([m EXCEPT !.zstate = "None"], <<>>)
        ELSE Err(m, "I/O errors in the inflater are unrecoverable"))

----------------------------------------------------------------------------
(* adler32.rs *)

Adler32_new == [s1 |-> 1, s2 |-> 0]

RECURSIVE Adler32_feed(_, _)
Adler32_feed(a, buf) ==
    IF Len(buf) = 0 THEN a
    ELSE LET s1 == a.s1 + buf[1]
             s2 == s1 + a.s2
         IN  Adler32_feed([s1 |-> s1 % 65521, s2 |-> s2 % 65521], Tail(buf))

\* (s2 << 16) | s1, as its four bytes from the most significant to the least
Adler32_checksum(a) == <<a.s2 \div 256, a.s2 % 256, a.s1 \div 256, a.s1 % 256>>

----------------------------------------------------------------------------
(* The streams given to the decoder.  A stream is described by its blocks   *)
(* and encoded to bytes as RFC 1950 and RFC 1951 lay it out.                *)

Lit(v)      == [t |-> "lit", v |-> v, length |-> 0, distance |-> 0]
Ref(l, d)   == [t |-> "ref", v |-> 0, length |-> l, distance |-> d]
\* the code of the literal/length symbol s, whatever s is
Sym(s)       == [t |-> "sym", v |-> s, length |-> 0, distance |-> 0]
\* the length l, and then the code of the distance symbol q with no extra bits
RefSym(l, q) == [t |-> "dsym", v |-> q, length |-> l, distance |-> 0]
Stored(final, bytes) ==
    [btype |-> 0, bfinal |-> final, bytes |-> bytes, toks |-> <<>>, nlen_ok |-> TRUE,
     hlit |-> 0, hdist |-> 0, meta |-> <<>>, cmds |-> <<>>]
Fixed(final, toks) ==
    [btype |-> 1, bfinal |-> final, bytes |-> <<>>, toks |-> toks, nlen_ok |-> TRUE,
     hlit |-> 0, hdist |-> 0, meta |-> <<>>, cmds |-> <<>>]
\* a block with dynamic codes: meta holds the lengths of the code length codes in the
\* order they are stored, cmds the code length symbols with their extra bits
Dynamic(final, hlit, hdist, meta, cmds, toks) ==
    [btype |-> 2, bfinal |-> final, bytes |-> <<>>, toks |-> toks, nlen_ok |-> TRUE,
     hlit |-> hlit, hdist |-> hdist, meta |-> meta, cmds |-> cmds]

\* n bits of v, least significant bit first (header fields, extra bits, bytes)
RECURSIVE BitsLSB(_, _)
BitsLSB(v, n) == IF n = 0 THEN <<>> ELSE <<v % 2>> \o BitsLSB(v \div 2, n - 1)

\* n bits of v, most significant bit first (Huffman codes)
RECURSIVE BitsMSB(_, _)
BitsMSB(v, n) == IF n = 0 THEN <<>> ELSE BitsMSB(v \div 2, n - 1) \o <<v % 2>>

RECURSIVE BytesBits(_)
BytesBits(bytes) ==
    IF Len(bytes) = 0 THEN <<>> ELSE BitsLSB(bytes[1], 8) \o BytesBits(Tail(bytes))

\* three bits for each code length of the code length alphabet
RECURSIVE BytesBits3(_)
BytesBits3(lens) ==
    IF Len(lens) = 0 THEN <<>> ELSE BitsLSB(lens[1], 3) \o BytesBits3(Tail(lens))

\* RFC 1951 3.2.6: the fixed code of literal/length symbol sym
FixedCodeBits(sym) ==
    IF sym <= 143 THEN BitsMSB(48 + sym, 8)
    ELSE IF sym <= 255 THEN BitsMSB(400 + (sym - 144), 9)
    ELSE IF sym <= 279 THEN BitsMSB(sym - 256, 7)
    ELSE BitsMSB(192 + (sym - 280), 8)

\* RFC 1951 3.2.2: the code of symbol sym in the alphabet with code lengths lens
\* (lens[k + 1] is the length of symbol k); the smallest code of each length first
RECURSIVE RfcNextCode(_, _)
RfcNextCode(lens, nbits) ==
    IF nbits <= 1 THEN 0
    ELSE 2 * (RfcNextCode(lens, nbits - 1)
              + Cardinality({k \in 1..Len(lens) : lens[k] = nbits - 1}))

RfcCodeBits(lens, sym) ==
    BitsMSB(RfcNextCode(lens, lens[sym + 1])
            + Cardinality({k \in 1..sym : lens[k] = lens[sym + 1]}),
            lens[sym + 1])

\* RFC 1951 3.2.7: the code lengths that the code length symbols stand for
RECURSIVE RfcLens(_, _)
RfcLens(lens, cmds) ==
    IF Len(cmds) = 0 THEN lens
    ELSE IF Len(cmds) > 1
    THEN With(RfcLens(lens, SubSeq(cmds, 1, Len(cmds) \div 2)), LAMBDA first :
              RfcLens(first, SubSeq(cmds, (Len(cmds) \div 2) + 1, Len(cmds))))
    ELSE IF cmds[1][1] <= 15 THEN Append(lens, cmds[1][1])
    ELSE IF cmds[1][1] = 16
    THEN lens \o [i \in 1..(3 + cmds[1][2]) |-> lens[Len(lens)]]
    ELSE IF cmds[1][1] = 17 THEN lens \o [i \in 1..(3 + cmds[1][2]) |-> 0]
    ELSE lens \o [i \in 1..(11 + cmds[1][2]) |-> 0]

\* the lengths of the code length alphabet, by symbol
MetaLens(b) ==
    [k \in 1..19 |->
        IF \E i \in 1..Len(b.meta) : CodeOrder[i] = k - 1
        THEN b.meta[CHOOSE i \in 1..Len(b.meta) : CodeOrder[i] = k - 1]
        ELSE 0]

LitLenLens(b) == SubSeq(RfcLens(<<>>, b.cmds), 1, b.hlit)
DistLens(b)   == SubSeq(RfcLens(<<>>, b.cmds), b.hlit + 1, b.hlit + b.hdist)

RECURSIVE CmdsBits(_, _)
CmdsBits(b, cmds) ==
    IF Len(cmds) = 0 THEN <<>>
    ELSE IF Len(cmds) > 1
    THEN CmdsBits(b, SubSeq(cmds, 1, Len(cmds) \div 2))
         \o CmdsBits(b, SubSeq(cmds, (Len(cmds) \div 2) + 1, Len(cmds)))
    ELSE RfcCodeBits(MetaLens(b), cmds[1][1])
         \o BitsLSB(cmds[1][2], IF cmds[1][1] = 16 THEN 2 ELSE IF cmds[1][1] = 17 THEN 3
                                ELSE IF cmds[1][1] = 18 THEN 7 ELSE 0)

\* the code of a literal/length symbol, and of a distance symbol, in block b
LitLenBits(b, sym) ==
    IF b.btype = 1 THEN FixedCodeBits(sym) ELSE RfcCodeBits(LitLenLens(b), sym)
DistBits(b, sym) ==
    IF b.btype = 1 THEN BitsMSB(sym, 5) ELSE RfcCodeBits(DistLens(b), sym)

\* the length code and distance code whose range holds the value
LengthCode(l) ==
    CHOOSE p \in 0..28 : LENGTHS[p + 1] <= l /\ (p = 28 \/ l < LENGTHS[p + 2])
DistanceCode(d) ==
    CHOOSE q \in 0..29 : DISTANCES[q + 1] <= d /\ (q = 29 \/ d < DISTANCES[q + 2])

TokenBits(b, tok) ==
    IF tok.t \in {"lit", "sym"} THEN LitLenBits(b, tok.v)
    ELSE IF tok.t = "dsym"
    THEN LitLenBits(b, 257 + LengthCode(tok.length))
         \o BitsLSB(tok.length - LENGTHS[LengthCode(tok.length) + 1],
                    EXTRA_LENGTHS[LengthCode(tok.length) + 1])
         \o DistBits(b, tok.v)
    ELSE LitLenBits(b, 257 + LengthCode(tok.length))
         \o BitsLSB(tok.length - LENGTHS[LengthCode(tok.length) + 1],
                    EXTRA_LENGTHS[LengthCode(tok.length) + 1])
         \o DistBits(b, DistanceCode(tok.distance))
         \o BitsLSB(tok.distance - DISTANCES[DistanceCode(tok.distance) + 1],
                    EXTRA_DISTANCES[DistanceCode(tok.distance) + 1])

RECURSIVE TokensBits(_, _)
TokensBits(b, toks) ==
    IF Len(toks) = 0 THEN <<>> ELSE TokenBits(b, toks[1]) \o TokensBits(b, Tail(toks))

PadToByte(b) == b \o [i \in 1..((8 - (Len(b) % 8)) % 8) |-> 0]

\* the bits of one block, appended to the bits `before` of the blocks before it
BlockBits(before, b) ==
    LET head == before \o <<IF b.bfinal THEN 1 ELSE 0>> \o BitsLSB(b.btype, 2)
        n    == Len(b.bytes)
        nlen == IF b.nlen_ok THEN 65535 - n ELSE (65536 - n) % 65536
    IN  IF b.btype = 0
        THEN PadToByte(head) \o BitsLSB(n, 16) \o BitsLSB(nlen, 16) \o BytesBits(b.bytes)
        ELSE IF b.btype = 1
        THEN head \o TokensBits(b, b.toks) \o LitLenBits(b, 256)
        ELSE IF b.btype = 2
        THEN head \o BitsLSB(b.hlit - 257, 5) \o BitsLSB(b.hdist - 1, 5)
             \o BitsLSB(Len(b.meta) - 4, 4)
             \o BytesBits3(b.meta)
             \o CmdsBits(b, b.cmds)
             \o TokensBits(b, b.toks) \o LitLenBits(b, 256)
        ELSE head

RECURSIVE BlocksBits(_, _)
BlocksBits(before, blocks) ==
    IF Len(blocks) = 0 THEN before
    ELSE BlocksBits(BlockBits(before, blocks[1]), Tail(blocks))

\* bytes of eight bits each, the first bit the least significant
PackBits(b) ==
    [i \in 1..(Len(b) \div 8) |->
        b[8 * i - 7] + 2 * b[8 * i - 6] + 4 * b[8 * i - 5] + 8 * b[8 * i - 4]
        + 16 * b[8 * i - 3] + 32 * b[8 * i - 2] + 64 * b[8 * i - 1] + 128 * b[8 * i]]

\* the DEFLATE stream of the blocks
Deflate(blocks) == PackBits(PadToByte(BlocksBits(<<>>, blocks)))

\* what the blocks stand for (RFC 1951: a back-reference copies byte by byte, so it
\* may run into the bytes it has just produced)
RECURSIVE CopyRef(_, _, _)
CopyRef(out, length, distance) ==
    IF length = 0 THEN out
    ELSE CopyRef(Append(out, out[Len(out) - distance + 1]), length - 1, distance)

RECURSIVE ExpandTokens(_, _)
ExpandTokens(out, toks) ==
    IF Len(toks) = 0 THEN out
    ELSE IF toks[1].t = "lit" THEN ExpandTokens(Append(out, toks[1].v), Tail(toks))
    ELSE ExpandTokens(CopyRef(out, toks[1].length, toks[1].distance), Tail(toks))

RECURSIVE ExpandBlocks(_, _)
ExpandBlocks(out, blocks) ==
    IF Len(blocks) = 0 THEN out
    ELSE ExpandBlocks(IF blocks[1].btype = 0 THEN out \o blocks[1].bytes
                      ELSE ExpandTokens(out, blocks[1].toks), Tail(blocks))

Expand(blocks) == ExpandBlocks(<<>>, blocks)

\* every back-reference stays inside the output produced before it
RECURSIVE TokensInRange(_, _)
TokensInRange(n, toks) ==
    IF Len(toks) = 0 THEN TRUE
    ELSE IF toks[1].t = "lit" THEN TokensInRange(n + 1, Tail(toks))
    ELSE /\ toks[1].distance >= 1 /\ toks[1].distance <= n /\ toks[1].distance <= 32768
         /\ toks[1].length >= 3 /\ toks[1].length <= 258
         /\ TokensInRange(n + toks[1].length, Tail(toks))

\* each alphabet of the block is a full prefix code (or one code of one bit), and every
\* symbol the block uses has a code
RECURSIVE KraftSum(_, _)
KraftSum(lens, l) ==
    IF l = 0 THEN 0
    ELSE KraftSum(lens, l - 1) + Cardinality({k \in 1..Len(lens) : lens[k] = l}) * 2^(15 - l)

FullCode(lens) ==
    \/ KraftSum(lens, 15) = 2^15
    \/ Cardinality({k \in 1..Len(lens) : lens[k] # 0}) = 1 /\ KraftSum(lens, 15) = 2^14

DynamicValid(b) ==
    /\ b.hlit \in 257..286 /\ b.hdist \in 1..30 /\ Len(b.meta) \in 4..19
    /\ Len(RfcLens(<<>>, b.cmds)) = b.hlit + b.hdist
    /\ \A i \in 1..Len(b.cmds) : MetaLens(b)[b.cmds[i][1] + 1] # 0
    /\ FullCode(MetaLens(b)) /\ FullCode(LitLenLens(b)) /\ FullCode(DistLens(b))
    /\ LitLenLens(b)[257] # 0
    /\ \A i \in 1..Len(b.toks) :
          IF b.toks[i].t = "lit" THEN LitLenLens(b)[b.toks[i].v + 1] # 0
          ELSE /\ LitLenLens(b)[258 + LengthCode(b.toks[i].length)] # 0
               /\ DistanceCode(b.toks[i].distance) < b.hdist
               /\ DistLens(b)[DistanceCode(b.toks[i].distance) + 1] # 0

RECURSIVE BlocksValid(_, _)
BlocksValid(n, blocks) ==
    IF Len(blocks) = 0 THEN FALSE
    ELSE LET b == blocks[1]
         IN  /\ b.btype \in {0, 1, 2}
             /\ b.nlen_ok
             /\ b.bfinal = (Len(blocks) = 1)
             /\ (b.btype # 0 => TokensInRange(n, b.toks))
             /\ (b.btype = 2 => DynamicValid(b))
             /\ (Len(blocks) > 1 =>
                    BlocksValid(Len(ExpandBlocks([i \in 1..n |-> 0], <<b>>)), Tail(blocks)))

----------------------------------------------------------------------------
(* Bounds, and the streams the decoder is run on *)

MaxToks   == 3      \* tokens in a fixed-Huffman block
MaxStored == 3      \* payload bytes of a stored block
MaxBuf    == 3      \* the caller's buffers have 1..MaxBuf bytes, or BigBuf
MaxCut    == 2      \* bytes cut from the end of a truncated stream
MaxFail   == 3      \* the last position at which the source may fail

BigBuf == 32        \* a buffer that holds any output of the streams below
BufSizes == (1..MaxBuf) \cup {BigBuf}

Lits == {97, 98}
Toks == {Lit(v) : v \in Lits} \cup {Ref(3, 1), Ref(3, 3)}

RECURSIVE SeqsUpTo(_, _)
SeqsUpTo(S, n) ==
    IF n = 0 THEN {<<>>}
    ELSE LET shorter == SeqsUpTo(S, n - 1)
         IN  shorter \cup {Append(q, x) : q \in shorter, x \in S}

\* the first k letters a, b, c, ...
ABC(k) == [i \in 1..k |-> 96 + i]

BlockLists ==
    {<<Fixed(TRUE, toks)>> : toks \in SeqsUpTo(Toks, MaxToks)}
    \cup {<<Stored(TRUE, ABC(k))>> : k \in 0..MaxStored}
    \cup {<<Stored(FALSE, ABC(k)), Fixed(TRUE, toks)>> :
            k \in 1..MaxStored, toks \in SeqsUpTo(Toks, 2)}
    \cup {<<Fixed(FALSE, toks), Stored(TRUE, ABC(k))>> :
            k \in 1..MaxStored, toks \in SeqsUpTo(Toks, 1)}
    \cup {<<Fixed(FALSE, <<>>), Fixed(TRUE, toks)>> : toks \in SeqsUpTo(Toks, 1)}
    \cup {<<Stored(FALSE, <<>>), Stored(TRUE, ABC(1))>>}

\* A dynamic block that codes a (2 bits), end of block (2 bits) and length 3 (1 bit),
\* and distance 1; its code lengths are given with runs of zeros.
SparseDynamic(final, toks) ==
    Dynamic(final, 258, 1, <<0, 0, 1, 0, 0, 0, 0, 0, 0, 0, 0, 0, 0, 0, 0, 2, 0, 2>>,
            <<<<18, 86>>, <<2, 0>>, <<18, 127>>, <<18, 9>>, <<2, 0>>, <<1, 0>>, <<1, 0>>>>,
            toks)

\* A dynamic block that codes every literal and end of block (0 and 1 with 9 bits, the
\* others with 8), and the distances 1 and 2; each code length is given by itself.
DenseDynamic(final, toks) ==
    Dynamic(final, 257, 2, <<0, 0, 0, 0, 1, 0, 2, 0, 0, 0, 0, 0, 0, 0, 0, 0, 0, 2>>,
            [k \in 1..259 |-> IF k <= 2 THEN <<9, 0>> ELSE IF k <= 257 THEN <<8, 0>>
                               ELSE <<1, 0>>],
            toks)

\* A dynamic block that codes the literals 1..255 and end of block with 8 bits, and no
\* literal 0; the distances 1 and 2; each code length, the 0 too, is given by itself.
ZeroFirstDynamic(final, toks) ==
    Dynamic(final, 257, 2, <<0, 0, 0, 2, 1, 0, 0, 0, 0, 0, 0, 0, 0, 0, 0, 0, 0, 2>>,
            [k \in 1..259 |-> IF k = 1 THEN <<0, 0>> ELSE IF k <= 257 THEN <<8, 0>>
                               ELSE <<1, 0>>],
            toks)

\* A dynamic block with no literals 0..5, where 3 of these code lengths 0 are given by
\* the command 17 and the next 3 by the command 16 (repeat the previous length); the
\* literals 6..10 have 7 bits, what follows up to end of block 8 bits.
RepeatAfterZeros(final, toks) ==
    Dynamic(final, 257, 2, <<3, 3, 0, 0, 1, 3, 0, 0, 0, 0, 0, 0, 0, 0, 0, 0, 0, 3>>,
            [k \in 1..255 |-> IF k = 1 THEN <<17, 0>> ELSE IF k = 2 THEN <<16, 0>>
                               ELSE IF k <= 7 THEN <<7, 0>>
                               ELSE IF k <= 253 THEN <<8, 0>> ELSE <<1, 0>>],
            toks)

\* a block with codes of its own that another block follows
DenseFirst == DenseDynamic(FALSE, <<Lit(97)>>)

DynamicBlockLists ==
    {<<SparseDynamic(TRUE, <<Lit(97), Ref(3, 1)>>)>>,
     <<DenseDynamic(TRUE, <<Lit(97), Lit(98)>>)>>,
     <<ZeroFirstDynamic(TRUE, <<Lit(97), Lit(98)>>)>>,
     <<RepeatAfterZeros(TRUE, <<Lit(97), Lit(98)>>)>>,
     <<DenseFirst, Fixed(TRUE, <<Lit(98), Ref(3, 2)>>)>>}

\* extra bits whose value reads differently from its two ends: the highest bit alone
HighBit(nbits) == IF nbits = 0 THEN 0 ELSE 2 ^ (nbits - 1)

\* one back-reference for each length code (0..28) and each distance code (0..29), with
\* extra bits that are not all alike
PointerBlockLists ==
    {<<Fixed(TRUE, <<Ref(LENGTHS[p + 1] + HighBit(EXTRA_LENGTHS[p + 1]), 1)>>)>> :
        p \in 0..(Len(LENGTHS) - 1)}
    \cup {<<Fixed(TRUE, <<Ref(3, DISTANCES[q + 1] + HighBit(EXTRA_DISTANCES[q + 1]))>>)>> :
            q \in 0..(Len(DISTANCES) - 1)}

\* the symbols that the fixed codes have and the format does not use
BadSymbolBlockLists ==
    {<<Fixed(TRUE, <<Lit(97), Sym(s)>>)>> : s \in {286, 287}}
    \cup {<<Fixed(TRUE, <<Lit(97), RefSym(3, q)>>)>> : q \in {30, 31}}

\* block lists that are also given with a damaged frame
FewBlockLists ==
    {<<Stored(TRUE, ABC(2))>>, <<Fixed(TRUE, <<Lit(97), Ref(3, 1)>>)>>}

BadBlockLists ==
    {<<[Stored(TRUE, ABC(2)) EXCEPT !.nlen_ok = FALSE]>>,
     <<[Stored(TRUE, <<>>) EXCEPT !.btype = 3]>>,
     <<Stored(FALSE, ABC(1))>>}

GoodHeader == <<120, 156>>
Headers == {GoodHeader, <<120, 157>>, <<121, 150>>, <<104, 129>>, <<120, 187>>}

Description(blocks, header, trailer_ok, cut) ==
    [blocks |-> blocks, header |-> header, trailer_ok |-> trailer_ok, cut |-> cut]

\* RFC 1950: CMF, FLG, (DICTID), the DEFLATE stream, ADLER32 big-endian
Trailer(d) ==
    LET sum == IF BlocksValid(0, d.blocks)
               THEN Adler32_checksum(Adler32_feed(Adler32_new, Expand(d.blocks)))
               ELSE Adler32_checksum(Adler32_new)
    IN  IF d.trailer_ok THEN sum ELSE [sum EXCEPT ![4] = (@ + 1) % 256]

ZlibBytes(d) ==
    LET dictid == IF BitAnd(d.header[2], 32) # 0 THEN <<0, 0, 0, 1>> ELSE <<>>
        all == d.header \o dictid \o Deflate(d.blocks) \o Trailer(d)
    IN  SubSeq(all, 1, Len(all) - d.cut)

\* what a bare Inflater is given: the DEFLATE stream and what follows it
InflateBytes(d) ==
    LET all == Deflate(d.blocks) \o Trailer(d)
    IN  SubSeq(all, 1, Len(all) - d.cut)

HeaderValid(h) ==
    h[1] % 16 = 8 /\ h[1] \div 16 = 7 /\ (h[1] * 256 + h[2]) % 31 = 0

\* the description is a complete, valid zlib stream
Valid(d) ==
    /\ HeaderValid(d.header)
    /\ BlocksValid(0, d.blocks)
    /\ d.trailer_ok
    /\ d.cut = 0

\* the length of the whole zlib stream of the blocks behind the header h
FullLen(blocks, h) == Len(ZlibBytes(Description(blocks, h, TRUE, 0)))

\* streams that end early: in the header, in the dictionary id, in the DEFLATE stream,
\* in the bytes of a stored block, in the trailer
Truncations ==
    UNION {{Description(b, h, TRUE, c) : c \in 1..FullLen(b, h)} :
              b \in FewBlockLists, h \in {GoodHeader, <<120, 187>>}}

Streams ==
    {Description(b, GoodHeader, TRUE, 0) :
        b \in BlockLists \cup DynamicBlockLists \cup BadBlockLists
              \cup PointerBlockLists \cup BadSymbolBlockLists}
    \cup {Description(b, h, t, c) :
            b \in FewBlockLists, h \in Headers, t \in BOOLEAN, c \in 0..MaxCut}
    \cup Truncations

----------------------------------------------------------------------------
(* The state machine *)

NoResult == [kind |-> "None", ekind |-> "", msg |-> "", bytes |-> <<>>]

\* the source fails at no position (-1), or when it is read at one of its first positions
FailPoints(bytes) == {-1} \cup {p \in 0..Len(bytes) : p <= MaxFail}

Init ==
    /\ stream \in Streams
    /\ api \in {"zlib", "inflate"}
    /\ (api = "inflate" => stream.header = GoodHeader)
    /\ input = IF api = "zlib" THEN ZlibBytes(stream) ELSE InflateBytes(stream)
    /\ fail_at \in FailPoints(input)
    /\ overflow_checks \in BOOLEAN
    /\ pos = 0
    /\ zstate = IF api = "zlib" THEN "Start" ELSE "Unused"
    /\ istate = IF api = "zlib" THEN "NotCreated" ELSE "BeforeBlockStart"
    /\ data = 0
    /\ bits = 0
    /\ len = 0
    /\ last_block = FALSE
    /\ eof = FALSE
    /\ lit_len_table = NoTable
    /\ dist_table = NoTable
    /\ output_cache = <<>>
    /\ result = NoResult
    /\ prev = NoResult
    /\ produced = <<>>
    /\ copies = <<>>
    /\ headers = <<>>
    /\ ended = 0
    /\ decoded = <<>>
    /\ deflate_at = -1
    /\ asked = 0
    /\ bits_taken = 0
    /\ stored = <<>>

\* the machine record of the current state
Cur ==
    [input |-> input, fail_at |-> fail_at, pos |-> pos,
     overflow_checks |-> overflow_checks, zstate |-> zstate, istate |-> istate,
     data |-> data, bits |-> bits, len |-> len, last_block |-> last_block,
     eof |-> eof, lit_len_table |-> lit_len_table, dist_table |-> dist_table,
     output_cache |-> output_cache, copies |-> copies, headers |-> headers,
     ended |-> ended, stored |-> stored,
     deflate_at |-> deflate_at,
     decoded |-> decoded]

\* the state after a read call that ended as r
Returned(r) ==
    /\ pos' = r.m.pos
    /\ zstate' = r.m.zstate
    /\ istate' = r.m.istate
    /\ data' = r.m.data
    /\ bits' = r.m.bits
    /\ len' = r.m.len
    /\ last_block' = r.m.last_block
    /\ eof' = r.m.eof
    /\ lit_len_table' = r.m.lit_len_table
    /\ dist_table' = r.m.dist_table
    /\ output_cache' = r.m.output_cache
    /\ copies' = r.m.copies
    /\ headers' = r.m.headers
    /\ ended' = r.m.ended
    /\ decoded' = r.m.decoded
    /\ deflate_at' = r.m.deflate_at
    /\ stored' = r.m.stored
    /\ prev' = result
    /\ result' = [kind |-> r.kind, ekind |-> r.ekind, msg |-> r.msg,
                  bytes |-> IF r.kind = "Ok" THEN r.val ELSE <<>>]
    /\ produced' = IF r.kind = "Ok" THEN produced \o r.val ELSE produced
    /\ UNCHANGED <<input, fail_at, overflow_checks, api, bits_taken, stream>>

\* decoder.read(&mut buf) on the ZlibDecoder, buf.len() = n; a panic ends the program
ReadZlibDecoder(n) ==
    /\ api = "zlib"
    /\ result.kind # "Panic"
    /\ \E r \in {ZlibDecoder_read(Cur, n)} : Returned(r)
    /\ asked' = n

\* inflater.read(&mut buf) on a bare Inflater, buf.len() = n
ReadInflater(n) ==
    /\ api = "inflate"
    /\ result.kind # "Panic"
    /\ \E r \in {Inflater_read(Cur, n)} : Returned(r)
    /\ asked' = n

Next ==
    \E n \in BufSizes :
        \/ ReadZlibDecoder(n)
        \/ ReadInflater(n)

Spec == Init /\ [][Next]_vars

----------------------------------------------------------------------------
(* What the read calls are expected to do *)

\* the last read returned Ok(0): no bytes, and no error
ReturnedEof(r) == r.kind = "Ok" /\ r.bytes = <<>>

\* the last read returned bytes
ReturnedBytes(r) == r.kind = "Ok" /\ r.bytes # <<>>

\* the read that returned `result` was the first to end the run of reads
FirstEnd == prev.kind = "None" \/ ReturnedBytes(prev)

\* C1. Round-trip: reading a ZlibDecoder over a valid zlib stream until it returns 0
\* never fails and yields exactly the bytes the stream encodes.
C1_RoundTrip ==
    (api = "zlib" /\ Valid(stream) /\ fail_at = -1 /\ FirstEnd) =>
        /\ result.kind \notin {"Err", "Panic"}
        /\ (ReturnedEof(result) => produced = Expand(stream.blocks))

\* C2. Idempotence of EOF: once a read has returned Ok(0), the next read (and so
\* every later read) returns Ok(0) too, on the ZlibDecoder and on the Inflater.
C2_EofIdempotent ==
    ReturnedEof(prev) => ReturnedEof(result)

\* both decoders hold no state: ZlibDecoder.state, or the bare Inflater's state, is None
StateIsNone ==
    IF api = "zlib" THEN zstate = "None" /\ istate = "None" ELSE istate = "None"

\* C3. Error terminality: a read that returns an error leaves the state None, and once
\* a read has returned an error the next read (and so every later read) returns an
\* InvalidInput error and no bytes.
C3_ErrorTerminal ==
    /\ (result.kind = "Err" => StateIsNone)
    /\ (prev.kind = "Err" =>
            result.kind = "Err" /\ result.ekind = "InvalidInput" /\ result.bytes = <<>>)

\* A read after an error of the byte source has returned.
C3_AfterSourceError ==
    /\ prev.kind = "Err" /\ prev.ekind = "Other"
    /\ result.kind = "Err"
    /\ result.msg = "I/O errors in the inflater are unrecoverable"
    /\ pos > 0

\* C4. Every read on the ZlibDecoder with a non-empty buffer returns Ok(n) or an
\* InvalidInput error; no panic is reached, whatever the input.
C4_NoPanic ==
    api = "zlib" =>
        /\ result.kind # "Panic"
        /\ (result.kind = "Err" /\ fail_at = -1 => result.ekind = "InvalidInput")

\* the last four bytes of the input, where the Adler-32 of a zlib stream stands
TrailerOf(bytes) == SubSeq(bytes, Len(bytes) - 3, Len(bytes))

\* C5. The ZlibDecoder reports the end of the stream with Ok(0) only when the trailer
\* is the big-endian Adler-32 of the bytes it has surfaced.
C5_TrailerChecked ==
    (api = "zlib" /\ ReturnedEof(result)) =>
        TrailerOf(input) = Adler32_checksum(Adler32_feed(Adler32_new, produced))

\* A read after a read that found the input malformed has returned.
C3_Witness ==
    /\ prev.kind = "Err" /\ prev.ekind = "InvalidInput"
    /\ prev.msg # "I/O errors in the inflater are unrecoverable"
    /\ result.kind = "Err"
    /\ result.msg = "I/O errors in the inflater are unrecoverable"

\* the decoder before its first read
Fresh ==
    [Cur EXCEPT !.pos = 0, !.zstate = IF api = "zlib" THEN "Start" ELSE "Unused",
                !.istate = IF api = "zlib" THEN "NotCreated" ELSE "BeforeBlockStart",
                !.data = 0, !.bits = 0, !.len = 0, !.last_block = FALSE, !.eof = FALSE,
                !.lit_len_table = NoTable, !.dist_table = NoTable,
                !.output_cache = <<>>, !.copies = <<>>, !.headers = <<>>, !.ended = 0,
                !.stored = <<>>,
                !.deflate_at = -1,
                !.decoded = <<>>]

\* reads with buffers of n bytes until a read returns 0 bytes, fails or panics
RECURSIVE read_to_end(_, _, _)
read_to_end(m, got, n) ==
    With(IF api = "zlib" THEN ZlibDecoder_read(m, n) ELSE Inflater_read(m, n), LAMBDA r :
        IF r.kind # "Ok" \/ Len(r.val) = 0 THEN [kind |-> r.kind, bytes |-> got]
        ELSE read_to_end(r.m, got \o r.val, n))

\* C6. Independence from buffer sizes: on a valid stream, the reads with any non-empty
\* buffers end as the reads with one large buffer end, and return the same bytes.
C6_BufferIndependent ==
    (Valid(stream) /\ fail_at = -1 /\ FirstEnd /\ result.kind # "None"
     /\ ~ReturnedBytes(result)) =>
        /\ result.kind = read_to_end(Fresh, <<>>, BigBuf).kind
        /\ produced = read_to_end(Fresh, <<>>, BigBuf).bytes

\* C7. A back-reference whose distance is not larger than the output produced so far
\* appends exactly `length` bytes (here: whenever the buffer has room for them).
C7_CopiesLength ==
    \A i \in 1..Len(copies) :
        (copies[i].distance <= copies[i].at /\ copies[i].length <= copies[i].room) =>
            copies[i].nb = copies[i].length

\* C8. Back-reference soundness: every byte returned for a back-reference with distance
\* d equals the byte d positions earlier in the total output.
C8_CopiesSound ==
    \A i \in 1..Len(copies) :
        copies[i].at + copies[i].nb <= Len(produced) =>
            \A k \in 1..copies[i].nb :
                /\ copies[i].at + k - copies[i].distance >= 1
                /\ produced[copies[i].at + k]
                       = produced[copies[i].at + k - copies[i].distance]

\* A back-reference was returned whose bytes come partly from the bytes of earlier read
\* calls and partly from the bytes written earlier in the same call.
C8_Witness ==
    \E i \in 1..Len(copies) :
        /\ copies[i].nb > 1
        /\ copies[i].at + copies[i].nb <= Len(produced)
        /\ copies[i].at - copies[i].distance < copies[i].hist
        /\ copies[i].at - copies[i].distance + copies[i].nb > copies[i].hist
        /\ copies[i].hist > 0

\* C9. A back-reference whose distance is larger than the output produced so far makes
\* the read fail with an InvalidInput error.
C9_TooFarIsError ==
    \A i \in 1..Len(copies) :
        copies[i].distance > copies[i].at =>
            result.kind = "Err" /\ result.ekind = "InvalidInput"

\* the block with bfinal = 1 has been decoded to its end
FinalBlockEnded ==
    /\ headers # <<>>
    /\ headers[Len(headers)].bfinal
    /\ ended = Len(headers)

\* C10. Progress: a read with a non-empty buffer returns Ok(0) only when the block with
\* bfinal = 1 has been decoded to its end; what a read returns before that is bytes or
\* an error.  (Every buffer of BufSizes is non-empty.  A read that panics returns
\* nothing: that is the subject of C4.)
C10_Progress ==
    ReturnedEof(result) => FinalBlockEnded

\* The first read went through a compressed block that is not the last and holds only
\* the end-of-block symbol, and returned the bytes of the block after it.
C10_Witness ==
    /\ prev.kind = "None"
    /\ ReturnedBytes(result)
    /\ Len(headers) = 2
    /\ ~headers[1].bfinal
    /\ headers[1].btype = 1
    /\ ended >= 1
    /\ produced = result.bytes

\* the stream ends before it is complete: for the ZlibDecoder a zlib stream that lacks
\* bytes, for the bare Inflater a DEFLATE stream that lacks bytes (what follows the
\* DEFLATE stream, here 4 bytes, is not the Inflater's)
SourceTruncated ==
    IF api = "zlib" THEN stream.cut > 0 ELSE stream.cut > 4

C11_TruncationBeforeTrailer ==
    (SourceTruncated /\ stream.cut > 4 /\ fail_at = -1) => ~ReturnedEof(result)

\* C12. A stored block: the bits left in the byte of the block header are discarded;
\* LEN and NLEN are the next two little-endian 16-bit values; when NLEN is not the one's
\* complement of LEN the read fails with InvalidInput; otherwise the block gives the
\* next LEN source bytes, unchanged and in order, and the source is never read beyond
\* them, whatever the size of the caller's buffer.
C12_StoredBlock ==
    \A i \in 1..Len(stored) :
        /\ stored[i].src >= 4
        /\ stored[i].len = input[stored[i].src - 3] + 256 * input[stored[i].src - 2]
        /\ stored[i].nlen = input[stored[i].src - 1] + 256 * input[stored[i].src]
        /\ stream.blocks[stored[i].blk].btype = 0
        /\ stored[i].len = Len(stream.blocks[stored[i].blk].bytes)
        /\ (stored[i].nlen # 65535 - stored[i].len =>
                /\ result.kind = "Err" /\ result.ekind = "InvalidInput"
                /\ Len(produced) = stored[i].at)
        /\ (stored[i].nlen = 65535 - stored[i].len =>
                /\ \A k \in 1..(Len(produced) - stored[i].at) :
                       k <= stored[i].len =>
                           produced[stored[i].at + k] = input[stored[i].src + k]
                /\ (i = Len(stored) /\ istate = "UncompressedData" =>
                        /\ pos = stored[i].src + Len(produced) - stored[i].at
                        /\ len = stored[i].len - (Len(produced) - stored[i].at)
                        /\ len > 0)
                /\ (i = Len(stored) /\ istate = "Eof" /\ stored[i].blk = Len(headers) =>
                        /\ pos = stored[i].src + stored[i].len
                        /\ Len(produced) = stored[i].at + stored[i].len))

\* A stored block of two bytes or more that follows a compressed block was returned
\* whole by a read whose buffer is larger than LEN, while the source holds more bytes.
C12_Witness ==
    \E i \in 1..Len(stored) :
        /\ stored[i].blk = 2
        /\ stored[i].len >= 2
        /\ asked > stored[i].len
        /\ result.kind = "Ok"
        /\ Len(result.bytes) = stored[i].len
        /\ istate = "Eof"
        /\ pos < Len(input)

\* C13. A stored block with LEN = 0 (NLEN = 0xFFFF) is valid and gives no output: when
\* bfinal = 0 the inflater goes on to the next block header, when bfinal = 1 the read
\* returns Ok(0).  No read panics on it.
C13_EmptyStoredBlock ==
    \A i \in 1..Len(stored) :
        (stored[i].len = 0 /\ stored[i].nlen = 65535 /\ fail_at = -1) =>
            /\ result.kind # "Panic"
            /\ (headers[stored[i].blk].bfinal /\ prev.kind = "None" =>
                    ReturnedEof(result))
            /\ (~headers[stored[i].blk].bfinal => Len(headers) > stored[i].blk)

\* C14. On its first read the ZlibDecoder accepts the header CMF, FLG exactly when
\* CMF mod 16 = 8, CMF div 16 = 7 and (CMF * 256 + FLG) mod 31 = 0, and fails with
\* InvalidInput otherwise; an accepted header takes exactly 2 source bytes, and 4 more
\* when FLG has bit 5 set, before the first bit of a block header is read (a stored
\* first block has its LEN one byte and its bytes five bytes behind the header); no
\* later read takes the header again.
C14_ZlibHeader ==
    (api = "zlib" /\ result.kind # "None") =>
        /\ zstate # "Start"
        /\ (headers # <<>> => deflate_at # -1)
        /\ (deflate_at # -1 =>
                /\ deflate_at = 2 + (IF (input[2] \div 32) % 2 = 1 THEN 4 ELSE 0)
                /\ HeaderValid(<<input[1], input[2]>>)
                /\ \A i \in 1..Len(stored) :
                       stored[i].blk = 1 => stored[i].src = deflate_at + 5)
        /\ (fail_at = -1 /\ Len(input) >= 2 /\ deflate_at = -1 =>
                \/ /\ ~HeaderValid(<<input[1], input[2]>>)
                    /\ result.kind = "Err" /\ result.ekind = "InvalidInput"
                    /\ pos = 2
                \/ /\ HeaderValid(<<input[1], input[2]>>)
                    /\ (input[2] \div 32) % 2 = 1
                    /\ Len(input) < 6
                    /\ result.kind = "Err")

\* A header with bit 5 of FLG set was accepted by the first read, and two later reads
\* returned bytes of the stored block that starts behind the 4 bytes of the dictionary id.
C14_Witness ==
    /\ api = "zlib"
    /\ deflate_at = 6
    /\ ReturnedBytes(prev)
    /\ ReturnedBytes(result)
    /\ stored # <<>>
    /\ produced = SubSeq(input, 12, 11 + Len(produced))

\* the tables of a dynamic block are in use: the last two runs of decode! made them
DynamicTablesInUse ==
    /\ istate = "CompressedData"
    /\ headers[Len(headers)].btype = 2
    /\ Len(decoded) >= 2

\* C15. In a dynamic block the code length at position i is the length of symbol i
\* (literal i, end of block 256, length code i - 257; distance symbol j for the j-th
\* length of the distance table): a symbol with length 0 has no code, and the symbols
\* behind it keep their numbers.
C15_SymbolOfPosition ==
    DynamicTablesInUse =>
        /\ \A i \in 1..Len(decoded[Len(decoded) - 1].lens) :
               decoded[Len(decoded) - 1].lens[i] # 0 =>
                   \E c \in 1..Len(lit_len_table.elements) :
                       lit_len_table.elements[c]
                           = SomeElem(decoded[Len(decoded) - 1].lens[i], LitLenSymbol(i - 1))
        /\ \A j \in 1..Len(decoded[Len(decoded)].lens) :
               decoded[Len(decoded)].lens[j] # 0 =>
                   \E c \in 1..Len(dist_table.elements) :
                       dist_table.elements[c] = SomeElem(decoded[Len(decoded)].lens[j], j - 1)

\* C16. The code length commands of a dynamic block are read until exactly
\* HLIT + HDIST lengths are there, the lengths that repeat commands give counted one by
\* one: never more lengths than that, and the first HLIT of them make the
\* literal/length table, the next HDIST the distance table.
C16_CountsLengths ==
    /\ \A k \in 1..Len(decoded) :
           Len(decoded[k].lens)
             + (IF k > 1 /\ decoded[k - 1].blk = decoded[k].blk
                THEN Len(decoded[k - 1].lens) ELSE 0)
               <= stream.blocks[decoded[k].blk].hlit + stream.blocks[decoded[k].blk].hdist
    /\ (DynamicTablesInUse =>
            /\ Len(decoded[Len(decoded) - 1].lens) = stream.blocks[Len(headers)].hlit
            /\ Len(decoded[Len(decoded)].lens) = stream.blocks[Len(headers)].hdist)

\* C17. The command 16 repeats, 3 + read(2) times, the code length pushed last,
\* whichever command pushed it (0 behind the zeros of 17 and 18); it fails, with
\* InvalidInput, only when no code length of the block was pushed before it.
C17_RepeatsLastLength ==
    \A k \in 1..Len(decoded) :
        \A r \in 1..Len(decoded[k].reps) :
            /\ (decoded[k].reps[r].count = 0 =>
                    /\ decoded[k].reps[r].before = 0
                    /\ (k = 1 \/ decoded[k - 1].blk # decoded[k].blk)
                    /\ result.kind = "Err" /\ result.ekind = "InvalidInput")
            /\ (decoded[k].reps[r].count # 0 =>
                    /\ decoded[k].reps[r].count \in 3..6
                    /\ decoded[k].reps[r].before > 0
                    /\ \A x \in 1..decoded[k].reps[r].count :
                           decoded[k].lens[decoded[k].reps[r].before + x]
                               = decoded[k].lens[decoded[k].reps[r].before])

\* the back-references of the stream's only block, a block with the fixed codes
RefToks == SelectSeq(stream.blocks[1].toks, LAMBDA tok : tok.t = "ref")

\* C18. A length code p in 0..28 stands for LENGTHS[p] plus the next EXTRA_LENGTHS[p]
\* bits, a distance code q in 0..29 for DISTANCES[q] plus the next EXTRA_DISTANCES[q]
\* bits, the extra bits read as one integer, lowest bit first: a read that reaches a
\* back-reference decodes the length and the distance it was written with, also when
\* the distance code has 9 to 13 extra bits.
C18_PointerValues ==
    (Len(stream.blocks) = 1 /\ stream.blocks[1].btype = 1) =>
        /\ \A i \in 1..Len(copies) :
               /\ i <= Len(RefToks)
               /\ copies[i].length = RefToks[i].length
               /\ copies[i].distance = RefToks[i].distance
        /\ (stream.blocks[1].toks # <<>> /\ stream.blocks[1].toks[1].t = "ref"
             /\ stream.cut = 0 /\ fail_at = -1 /\ result.kind # "None" =>
                copies # <<>>)

\* the same, for the distance codes with at most 8 extra bits
C18_UpToEightBits ==
    (\A i \in 1..Len(RefToks) : RefToks[i].distance <= 1024) => C18_PointerValues

\* the stream's first block holds a literal/length symbol 286 or 287, or a distance
\* symbol 30 or 31
HasBadSymbol ==
    \E i \in 1..Len(stream.blocks[1].toks) : stream.blocks[1].toks[i].t \in {"sym", "dsym"}

\* C19. A literal/length symbol 286 or 287, or a distance symbol 30 or 31, makes the
\* read fail with InvalidInput: no read of such a stream panics or reports its end.
C19_BadSymbolIsError ==
    (HasBadSymbol /\ fail_at = -1) =>
        /\ result.kind # "Panic"
        /\ ~ReturnedEof(result)
        /\ (result.kind = "Err" => result.ekind = "InvalidInput")

\* a block with the fixed codes is being decoded
FixedTablesInUse ==
    /\ istate = "CompressedData"
    /\ headers[Len(headers)].btype = 1

\* C20. The fixed tables are those of RFC 1951, 3.2.6: the symbols 0..143 have the
\* 8-bit codes 00110000 (48) to 10111111, the symbols 144..255 the 9-bit codes
\* 110010000 (400) to 111111111, the symbols 256..279 the 7-bit codes 0000000 to
\* 0010111, the symbols 280..287 the 8-bit codes 11000000 (192) to 11000111, and there
\* is no other code; every distance symbol q in 0..29 has the 5-bit code of value q.
C20_FixedTables ==
    FixedTablesInUse =>
        /\ \A sym \in 0..143 :
               lit_len_table.elements[48 + sym + 1] = SomeElem(8, Byte(sym))
        /\ \A sym \in 144..255 :
               lit_len_table.elements[400 + (sym - 144) + 1] = SomeElem(9, Byte(sym))
        /\ lit_len_table.elements[1] = SomeElem(7, EofSymbol)
        /\ \A sym \in 257..279 :
               lit_len_table.elements[(sym - 256) + 1] = SomeElem(7, Pointer(sym - 257))
        /\ \A sym \in 280..287 :
               lit_len_table.elements[192 + (sym - 280) + 1] = SomeElem(8, Pointer(sym - 257))
        /\ Cardinality({c \in 1..Len(lit_len_table.elements) :
                           lit_len_table.elements[c] # NoElem}) = 288
        /\ \A q \in 0..29 : dist_table.elements[q + 1] = SomeElem(5, q)

\* A read has returned the byte 'a' and bytes of a back-reference, all of them decoded
\* with the fixed tables: a literal, a length code and a distance code.
C20_Witness ==
    /\ FixedTablesInUse
    /\ Len(headers) = 1
    /\ ReturnedBytes(result)
    /\ produced[1] = 97
    /\ copies # <<>>
    /\ copies[1].nb > 0
    /\ copies[1].at + copies[1].nb <= Len(produced)

----------------------------------------------------------------------------
(* huffman.rs used on its own, as its tests use it: HuffmanTable::from_lengths on a
   vector of (symbol, length) pairs, then HuffmanTable::decode, call after call, on a
   BitRead over a Cursor *)

MaxSyms == 3       \* pairs of a vector
MaxShort == 3      \* the short code lengths are 0..MaxShort

\* the code lengths of the vectors: the short ones, the longest one the arrays of
\* from_lengths have a place for, and the next one
CodeLens == (0..MaxShort) \cup {9, 10}

LengthVectors == UNION {[1..n -> CodeLens] : n \in 0..MaxSyms}

\* the pairs handed to from_lengths: the symbols 0, 1, ... in order, each with its length
Pairs(lens) == [k \in 1..Len(lens) |-> <<k - 1, lens[k]>>]

\* the symbols of the vector that have a code
Coded(lens) == {s \in 0..(Len(lens) - 1) : lens[s + 1] # 0}

\* the texts decoded: the codes of two symbols, one behind the other, in whole bytes;
\* and no byte at all
HuffTexts(lens) ==
    {<<>>} \cup {PackBits(PadToByte(RfcCodeBits(lens, s) \o RfcCodeBits(lens, t))) :
                    s \in Coded(lens), t \in Coded(lens)}

\* a vector and the text decoded with its table
HuffStreams ==
    UNION {{[lengths |-> v, text |-> x] : x \in HuffTexts(v)} : v \in LengthVectors}

\* no ZlibDecoder and no Inflater: the fields of the two, and their history, stay as
\* they are
NoDecoder ==
    /\ fail_at = -1
    /\ overflow_checks = TRUE
    /\ zstate = "Unused"
    /\ istate = "Unused"
    /\ len = 0
    /\ last_block = FALSE
    /\ eof = FALSE
    /\ dist_table = NoTable
    /\ output_cache = <<>>
    /\ produced = <<>>
    /\ copies = <<>>
    /\ headers = <<>>
    /\ ended = 0
    /\ decoded = <<>>
    /\ deflate_at = -1
    /\ stored = <<>>

HuffInit ==
    /\ api = "HuffmanTable"
    /\ stream \in HuffStreams
    /\ input = stream.text
    /\ NoDecoder
    /\ pos = 0
    /\ data = 0
    /\ bits = 0
    /\ lit_len_table = NoTable
    /\ result = NoResult
    /\ prev = NoResult
    /\ asked = 0
    /\ bits_taken = 0

decoder_fields == <<fail_at, overflow_checks, zstate, istate, len, last_block, eof,
                    dist_table, output_cache, produced, copies, headers, ended,
                    decoded, deflate_at, stored>>

\* HuffmanTable::from_lengths(pairs): the table, or a panic, which ends the program
FromLengths ==
    /\ api = "HuffmanTable"
    /\ result.kind = "None"
    /\ \E t \in {from_lengths(Pairs(stream.lengths))} :
           /\ lit_len_table' = t.val
           /\ result' = [kind |-> t.kind, ekind |-> "", msg |-> t.msg, bytes |-> <<>>]
    /\ prev' = result
    /\ UNCHANGED <<input, api, stream, pos, data, bits, asked, bits_taken>>
    /\ UNCHANGED decoder_fields

\* table.decode(&mut bit_read): the symbol decoded is the one byte of result.bytes
Decode ==
    /\ api = "HuffmanTable"
    /\ result.kind \in {"Ok", "Err"}
    /\ \E r \in {decode(lit_len_table, Cur)} :
           /\ pos' = r.m.pos
           /\ data' = r.m.data
           /\ bits' = r.m.bits
           /\ result' = [kind |-> r.kind, ekind |-> r.ekind, msg |-> r.msg,
                         bytes |-> IF r.kind = "Ok" THEN <<r.val>> ELSE <<>>]
    /\ prev' = result
    /\ UNCHANGED <<input, api, stream, lit_len_table, asked, bits_taken>>
    /\ UNCHANGED decoder_fields

HuffNext == FromLengths \/ Decode

HuffSpec == HuffInit /\ [][HuffNext]_vars

----------------------------------------------------------------------------
(* bit.rs used on its own, as its tests use it: BitRead::new over a Cursor, calls of
   read, then byte_align_unwrap and bytes taken from the Cursor it returns *)

MaxBytes == 2      \* bytes of a source

\* the sources: up to MaxBytes bytes, each one a byte of the tests of bit.rs
BitSources == UNION {[1..n -> {78, 216, 170}] : n \in 0..MaxBytes}

BitInit ==
    /\ api = "BitRead"
    /\ input \in BitSources
    /\ stream = [text |-> input]
    /\ NoDecoder
    /\ pos = 0
    /\ data = 0
    /\ bits = 0
    /\ lit_len_table = NoTable
    /\ result = NoResult
    /\ prev = NoResult
    /\ asked = 0
    /\ bits_taken = 0

\* bit_read.read(n): the integer returned is the one byte of result.bytes
ReadBits(n) ==
    /\ api = "BitRead"
    /\ result.kind # "Panic"
    /\ \E r \in {BitRead_read(Cur, n)} :
           /\ pos' = r.m.pos
           /\ data' = r.m.data
           /\ bits' = r.m.bits
           /\ result' = [kind |-> r.kind, ekind |-> r.ekind, msg |-> r.msg,
                         bytes |-> IF r.kind = "Ok" THEN <<r.val>> ELSE <<>>]
           /\ bits_taken' = IF r.kind = "Ok" THEN bits_taken + n ELSE bits_taken
    /\ asked' = n
    /\ UNCHANGED <<input, api, stream, lit_len_table, prev>>
    /\ UNCHANGED decoder_fields

\* bit_read.byte_align_unwrap(): the reader is gone, the calls go to the Cursor
AlignUnwrap ==
    /\ api = "BitRead"
    /\ result.kind # "Panic"
    /\ \E r \in {byte_align_unwrap(Cur)} :
           /\ pos' = r.m.pos
           /\ data' = r.m.data
           /\ bits' = r.m.bits
           /\ result' = [kind |-> r.kind, ekind |-> r.ekind, msg |-> r.msg,
                         bytes |-> <<>>]
           /\ api' = IF r.kind = "Ok" THEN "Cursor" ELSE api
    /\ asked' = 0
    /\ UNCHANGED <<input, stream, lit_len_table, prev, bits_taken>>
    /\ UNCHANGED decoder_fields

\* cursor.bytes().next(): one byte of the Cursor that byte_align_unwrap returned
NextByte ==
    /\ api = "Cursor"
    /\ \E r \in {SourceRead(Cur, 1)} :
           /\ pos' = r.m.pos
           /\ result' = [kind |-> r.kind, ekind |-> r.ekind, msg |-> r.msg,
                         bytes |-> IF r.kind = "Ok" THEN r.val ELSE <<>>]
    /\ asked' = 1
    /\ UNCHANGED <<input, api, stream, data, bits, lit_len_table, prev, bits_taken>>
    /\ UNCHANGED decoder_fields

BitNext ==
    \/ \E n \in 0..9 : ReadBits(n)     \* all that read accepts, and one more
    \/ AlignUnwrap
    \/ NextByte

BitSpec == BitInit /\ [][BitNext]_vars

----------------------------------------------------------------------------
(* The state machine with reads into empty buffers too *)

ZeroNext ==
    \/ Next
    \/ ReadZlibDecoder(0)
    \/ ReadInflater(0)

ZeroSpec == Init /\ [][ZeroNext]_vars

----------------------------------------------------------------------------
(* Claims C21 to C23, on HuffSpec *)

\* from_lengths has been called on the vector of the stream
TableAsked == api = "HuffmanTable" /\ result.kind # "None"

\* the canonical code of the k-th pair (RFC 1951, 3.2.2): the first code of its
\* length, plus one for every earlier pair of that length
CanonicalCode(lens, k) ==
    RfcNextCode(lens, lens[k]) + Cardinality({j \in 1..(k - 1) : lens[j] = lens[k]})

\* the table holds every pair of the vector, with its length, at the slot of its
\* canonical code, and nothing else
CanonicalTable(table, lens) ==
    /\ \A k \in 1..Len(lens) :
           /\ CanonicalCode(lens, k) < Len(table.elements)
           /\ table.elements[CanonicalCode(lens, k) + 1] = SomeElem(lens[k], k - 1)
    /\ \A c \in 1..Len(table.elements) :
           table.elements[c] # NoElem =>
               \E k \in 1..Len(lens) : CanonicalCode(lens, k) = c - 1

\* C21. from_lengths accepts every vector of pairs whose lengths are in 1..=15 (it
\* does not panic) and builds the table of the canonical code: the pairs of length l
\* take next_code[l], next_code[l] + 1, ... in input order, where next_code[1] = 0 and
\* next_code[l] = (next_code[l - 1] + count[l - 1]) << 1, and each pair is stored,
\* with its length, at the slot of its code value.
C21_CanonicalCodes ==
    (/\ TableAsked
     /\ stream.lengths # <<>>
     /\ \A k \in 1..Len(stream.lengths) : stream.lengths[k] \in 1..15) =>
        /\ lit_len_table # NoTable
        /\ CanonicalTable(lit_len_table, stream.lengths)

\* the same for the lengths 1..=9, the lengths the arrays of from_lengths have a
\* place for
C21_UpToNine ==
    (\A k \in 1..Len(stream.lengths) : stream.lengths[k] <= 9) => C21_CanonicalCodes

\* a table was built from a vector with two pairs of one length and a pair of the
\* longest length accepted
C21_BuiltLong ==
    /\ TableAsked
    /\ lit_len_table # NoTable
    /\ \E j, k \in 1..Len(stream.lengths) :
           j < k /\ stream.lengths[j] = stream.lengths[k]
    /\ \E k \in 1..Len(stream.lengths) : stream.lengths[k] = 9

\* index, from 0, of the next bit the BitRead hands out: the bits of the bytes taken
\* from the source, less the bits still buffered
BitPos == 8 * pos - bits

\* bit k of the input, from 0: the bits of a byte from the least significant one
StreamBit(k) == (input[(k \div 8) + 1] \div 2^(k % 8)) % 2

\* the next bits of the input are those of code, in order
NextBitsAre(code) ==
    /\ BitPos + Len(code) <= 8 * Len(input)
    /\ \A i \in 1..Len(code) : StreamBit(BitPos + i - 1) = code[i]

\* the lengths are those of a prefix code, full or not (Kraft's inequality)
PrefixCode(lens) == KraftSum(lens, 15) <= 2^15

\* a decode step that starts at the code of the symbol s returns s and takes the bits
\* of the code; one that fails with "Bad huffman data" started at no code
DecodeStep ==
    /\ \A s \in Coded(stream.lengths) :
           NextBitsAre(RfcCodeBits(stream.lengths, s)) =>
               /\ result'.kind = "Ok"
               /\ result'.bytes = <<s>>
               /\ BitPos' = BitPos + stream.lengths[s + 1]
    /\ (result'.kind = "Err" /\ result'.msg = "Bad huffman data" =>
            /\ result'.ekind = "InvalidInput"
            /\ \A s \in Coded(stream.lengths) :
                   ~NextBitsAre(RfcCodeBits(stream.lengths, s)))

\* C22. With every table that from_lengths builds, of a full code or not (one symbol
\* of length 1, three symbols of length 2), decode on a reader whose next bits are the
\* code of a symbol s, first bit of the code first, returns s and consumes length(s)
\* bits; it fails with InvalidInput("Bad huffman data") only when the bits match no
\* code.
C22_DecodesCodes ==
    [][(api = "HuffmanTable" /\ lit_len_table # NoTable /\ PrefixCode(stream.lengths))
           => DecodeStep]_vars

\* the same for the full codes, which leave no bit pattern without a symbol
C22_FullCodes ==
    [][(api = "HuffmanTable" /\ lit_len_table # NoTable
           /\ KraftSum(stream.lengths, 15) = 2^15) => DecodeStep]_vars

\* the slots of the table that hold a symbol
Defined(table) == {c \in 1..Len(table.elements) : table.elements[c] # NoElem}

\* every code value of the table fits in the length stored with it
CodesFit(table) ==
    \A c \in Defined(table) : c - 1 < 2^(table.elements[c][1])

\* no code of the table is the beginning of another one
PrefixFree(table) ==
    \A c, d \in Defined(table) :
        (c # d /\ table.elements[c][1] <= table.elements[d][1]) =>
            (d - 1) \div 2^(table.elements[d][1] - table.elements[c][1]) # c - 1

\* C23. In every table that from_lengths builds from a vector of code lengths, the
\* over-subscribed vectors included, no code is a prefix of another code and every
\* code value fits in its own length.
C23_PrefixProperty ==
    (TableAsked /\ lit_len_table # NoTable) =>
        /\ CodesFit(lit_len_table)
        /\ PrefixFree(lit_len_table)

\* C23, for the vectors that are not over-subscribed: the tables built from the
\* lengths of a prefix code, full or not, have the two properties.
C23_OfPrefixCodes ==
    PrefixCode(stream.lengths) => C23_PrefixProperty

\* a table was built from the lengths of a prefix code that has codes of two lengths
C23_Witness ==
    /\ TableAsked
    /\ lit_len_table # NoTable
    /\ PrefixCode(stream.lengths)
    /\ \E c, d \in Defined(lit_len_table) :
           lit_len_table.elements[c][1] < lit_len_table.elements[d][1]

----------------------------------------------------------------------------
(* Claims C24 and C25, on BitSpec *)

\* sum of the bits k, k + 1, ..., k + n - 1 of the input, the first one lowest
RECURSIVE BitsValue(_, _)
BitsValue(k, n) ==
    IF n = 0 THEN 0 ELSE StreamBit(k) + 2 * BitsValue(k + 1, n - 1)

\* n calls of read(1) on the reader m: the i-th bit returned, from 0, shifted by i;
\* -1 when one of the calls fails
RECURSIVE OneBitReads(_, _)
OneBitReads(m, n) ==
    IF n = 0 THEN 0
    ELSE With(BitRead_read(m, 1), LAMBDA b :
             IF b.kind # "Ok" THEN -1
             ELSE With(OneBitReads(b.m, n - 1), LAMBDA rest :
                      IF rest = -1 THEN -1 ELSE b.val + 2 * rest))

\* C24. read(n), n in 0..=8, returns the integer whose bit i is the (i + 1)-th bit
\* taken, the bits of each source byte from the least significant one, the bytes in
\* source order; one read of n bits returns the sum of (i-th of n reads of one bit)
\* << i, also when the n bits lie in two source bytes.
C24_LsbFirst ==
    api = "BitRead" =>
        /\ (result.kind = "Ok" /\ asked <= 8 =>
                result.bytes = <<BitsValue(bits_taken - asked, asked)>>)
        /\ (result.kind # "Panic" =>
                \A n \in 0..8 :
                    With(BitRead_read(Cur, n), LAMBDA r :
                        /\ r.kind # "Panic"
                        /\ (r.kind = "Ok" => r.val = OneBitReads(Cur, n))
                        /\ (r.kind = "Err" => OneBitReads(Cur, n) = -1)))

\* a read of 3 bits or more took bits of two source bytes, some 0 and some 1
C24_Witness ==
    /\ api = "BitRead"
    /\ result.kind = "Ok"
    /\ asked >= 3
    /\ bits_taken - asked < 8
    /\ bits_taken > 9
    /\ result.bytes[1] \notin {0, 2^asked - 1}
    /\ result.bytes[1] = OneBitReads([Cur EXCEPT !.pos = 0, !.data = 0, !.bits = 0],
                                     bits_taken) \div 2^(bits_taken - asked)

\* bytes that hold the first n bits of the source
BytesOf(n) == (n + 7) \div 8

\* C25. After successful reads that took T bits in all, ceil(T / 8) bytes have been
\* read from the source and 0 to 7 bits are buffered (none and no byte after read(0)
\* on a new reader); byte_align_unwrap does not fail, discards fewer than 8 bits and
\* returns the source at the first byte of which no bit was taken.
C25_BytesRead ==
    /\ (api = "BitRead" /\ result.kind # "Panic" =>
            /\ pos = BytesOf(bits_taken)
            /\ bits \in 0..7
            /\ bits = 8 * pos - bits_taken)
    /\ (api = "BitRead" /\ asked <= 8 => result.kind # "Panic")
    /\ (api = "Cursor" =>
            /\ 8 * BytesOf(bits_taken) - bits_taken \in 0..7
            /\ (asked = 0 => pos = BytesOf(bits_taken))
            /\ (asked = 1 /\ pos = BytesOf(bits_taken) =>
                    pos = Len(input) /\ result.bytes = <<>>)
            /\ (asked = 1 /\ pos = BytesOf(bits_taken) + 1 /\ result.bytes # <<>> =>
                    result.bytes = <<input[BytesOf(bits_taken) + 1]>>))

\* After a read of 2 bits, byte_align_unwrap has dropped 6 bits and the Cursor has
\* given the second byte of the source.
C25_Witness ==
    /\ api = "Cursor"
    /\ bits_taken = 2
    /\ pos = 2
    /\ result.kind = "Ok"
    /\ result.bytes = <<input[2]>>

\* After read(0) on a new reader no byte has been read.
C25_ReadZero ==
    /\ api = "BitRead"
    /\ result.kind = "Ok"
    /\ asked = 0
    /\ bits_taken = 0
    /\ pos = 0

----------------------------------------------------------------------------
(* Claims C26 to C30 *)

\* the header last read
LastHeader == headers[Len(headers)]

\* the blocks of the stream before block k have stored bytes, the fixed codes, or
\* codes whose lengths are given one by one and are not 0, so that no defect of the
\* decoding of code lengths moves the start of block k
StartKnown(k) ==
    \A j \in 1..(k - 1) :
        \/ stream.blocks[j].btype \in {0, 1}
        \/ \A c \in 1..Len(stream.blocks[j].cmds) : stream.blocks[j].cmds[c][1] \in 1..15

\* C26. At the start of a block bfinal is read (1 bit), then btype (2 bits): the
\* headers read are those of the blocks of the stream.  00 gives the state of stored
\* data, 01 that of compressed data with the fixed tables, 10 that of compressed data
\* with tables decoded from the stream, 11 fails with InvalidInput.  The bfinal of a
\* block decides at its end whether the state is Eof or BeforeBlockStart: no header
\* is read behind a final block.
C26_BlockHeaders ==
    /\ \A k \in 1..Len(headers) :
           /\ (k <= Len(stream.blocks) /\ StartKnown(k)) =>
                  /\ headers[k].bfinal = stream.blocks[k].bfinal
                  /\ headers[k].btype = stream.blocks[k].btype
           /\ (k < Len(headers) => ~headers[k].bfinal)
    /\ (istate = "UncompressedData" =>
            /\ LastHeader.btype = 0
            /\ last_block = LastHeader.bfinal
            /\ ended = Len(headers) - 1)
    /\ (istate = "CompressedData" =>
            /\ LastHeader.btype \in {1, 2}
            /\ last_block = LastHeader.bfinal
            /\ ended = Len(headers) - (IF eof THEN 0 ELSE 1)
            /\ (LastHeader.btype = 1 =>
                    /\ lit_len_table = FixedLitLenTable.val
                    /\ dist_table = FixedDistTable.val)
            /\ (LastHeader.btype = 2 =>
                    /\ Len(decoded) >= 2
                    /\ decoded[Len(decoded)].blk = Len(headers)
                    /\ lit_len_table # NoTable))
    /\ (istate = "Eof" =>
            /\ headers # <<>>
            /\ LastHeader.bfinal
            /\ ended = Len(headers))
    /\ (istate = "BeforeBlockStart" /\ headers # <<>> =>
            /\ ~LastHeader.bfinal
            /\ ended = Len(headers))
    /\ (headers # <<>> /\ LastHeader.btype = 3 =>
            /\ result.kind = "Err"
            /\ result.ekind = "InvalidInput"
            /\ istate = "None")

\* Two headers were read, that of a block with codes of its own that is not final
\* and that of a final block with the fixed codes, and the second block has ended.
C26_Witness ==
    /\ Len(headers) = 2
    /\ ~headers[1].bfinal /\ headers[1].btype = 2
    /\ headers[2].bfinal /\ headers[2].btype = 1
    /\ StartKnown(2)
    /\ istate = "Eof"
    /\ ended = 2

\* A header with btype 11 was read.
C26_Reserved ==
    /\ headers # <<>>
    /\ LastHeader.btype = 3
    /\ result.msg = "Reserved block type 0b11"

\* index of the first bit of the DEFLATE stream in the source
DeflateStart == IF api = "zlib" THEN 8 * deflate_at ELSE 0

\* the number of bits of the block DenseFirst
DenseFirstLen == Len(BlocksBits(<<>>, <<DenseFirst>>))

\* index in the source of the bit behind the first n blocks of the stream: behind the
\* code of end of block of a compressed block, behind the bytes of a stored block
BlocksEnd(n) ==
    DeflateStart + (IF n = 1 /\ stream.blocks[1] = DenseFirst THEN DenseFirstLen
                    ELSE Len(BlocksBits(<<>>, SubSeq(stream.blocks, 1, n))))

\* C27. The header of the block that follows a compressed block which is not final
\* starts at the bit behind the code of end of block: the bit reader and the bits it
\* has buffered are kept.  The header of the block that follows a stored block which
\* is not final starts at the first bit of the byte behind the LEN bytes of the block.
C27_NextHeader ==
    \A k \in 2..Len(headers) :
        /\ (k <= Len(stream.blocks) /\ StartKnown(k) => headers[k].at = BlocksEnd(k - 1))
        /\ \A i \in 1..Len(stored) :
               stored[i].blk = k - 1 =>
                   headers[k].at = 8 * (stored[i].src + stored[i].len)

\* The header of a second block was read from the middle of a byte, where the first
\* block, a compressed one, ends.
C27_Witness ==
    /\ Len(headers) = 2
    /\ Len(stream.blocks) = 2
    /\ stream.blocks[1].btype = 1
    /\ headers[2].at % 8 # 0
    /\ headers[2].at = BlocksEnd(1)
    /\ headers[2].bfinal

\* The header of a second block was read behind the bytes of a stored block.
C27_WitnessStored ==
    /\ Len(headers) = 2
    /\ Len(stream.blocks) = 2
    /\ stored # <<>>
    /\ stored[1].blk = 1
    /\ stored[1].len > 0
    /\ headers[2].at = 8 * (stored[1].src + stored[1].len)
    /\ headers[2].btype = 1

\* C28. Whenever a read returns, output_cache is the concatenation of the bytes that
\* the successful reads have returned so far, whatever the types of the blocks they
\* came from: a back-reference can reach the bytes of an earlier block, stored or
\* compressed.
C28_OutputCache ==
    output_cache = produced

\* A read has returned bytes that a back-reference of the second block copied from
\* the bytes of the first block, a stored one.
C28_Witness ==
    /\ Len(headers) = 2
    /\ headers[1].btype = 0
    /\ headers[2].btype = 1
    /\ copies # <<>>
    /\ copies[1].at = stored[1].len
    /\ copies[1].distance <= stored[1].len
    /\ copies[1].nb > 0
    /\ result.kind = "Ok"
    /\ Len(produced) > copies[1].at
    /\ produced[copies[1].at + 1] = produced[copies[1].at - copies[1].distance + 1]
    /\ output_cache = produced

\* the fields of the decoder and the position of its source
decoder == <<pos, zstate, istate, data, bits, len, last_block, eof, lit_len_table,
             dist_table, output_cache>>

\* C29. A read into a buffer of length 0, on the Inflater or the ZlibDecoder, in any
\* state that no failed read has left, returns Ok(0) and leaves the decoder as it is.
C29_EmptyBuffer ==
    [][(asked' = 0 /\ result.kind \in {"None", "Ok"}) =>
           /\ result'.kind = "Ok"
           /\ result'.bytes = <<>>
           /\ decoder' = decoder]_vars

\* the same for an Inflater that has reached the end of the stream
C29_AtEof ==
    [][(asked' = 0 /\ result.kind \in {"None", "Ok"} /\ istate = "Eof"
           /\ api = "inflate") =>
           /\ result'.kind = "Ok"
           /\ result'.bytes = <<>>
           /\ decoder' = decoder]_vars

\* the decoder has read the headers of all the blocks of the stream, each at its place
AllBlocksRead ==
    /\ Len(headers) = Len(stream.blocks)
    /\ StartKnown(Len(stream.blocks) + 1)

\* number of the bytes of the source up to the last byte of the DEFLATE stream: all
\* the bytes of the stream as it was before it was cut, less the 4 of the trailer
DeflateEnd == Len(input) + stream.cut - Len(Trailer(stream))

\* C30. When the Inflater reaches Eof, the bytes taken from the source are those that
\* hold bits of the DEFLATE stream, and no more: the next byte of the source is the
\* first byte of the zlib trailer.
C30_NoOverRead ==
    (istate = "Eof" /\ AllBlocksRead) =>
        /\ pos = DeflateEnd
        /\ SubSeq(input, pos + 1, Len(input))
               = SubSeq(Trailer(stream), 1, Len(Trailer(stream)) - stream.cut)

\* The Inflater has reached Eof behind a compressed block that ends in the middle of
\* a byte, and the 4 bytes of the trailer are the bytes left in the source.
C30_Witness ==
    /\ istate = "Eof"
    /\ AllBlocksRead
    /\ api = "zlib"
    /\ stream.cut = 0
    /\ LastHeader.btype = 1
    /\ Len(BlocksBits(<<>>, stream.blocks)) % 8 # 0
    /\ Len(input) - pos = 4
    /\ SubSeq(input, pos + 1, Len(input)) = Trailer(stream)

====
